---- MODULE Spec2Model ----
(***************************************************************************)
(* Model of the Elasticsearch chat agent backend: the per-turn workflow of *)
(* ElasticsearchAgent (app/agents/elasticsearch_agent.py), the query cache *)
(* of RedisService, the POST /chat route and the WebSocket chat handler.   *)
(***************************************************************************)
EXTENDS Integers, Sequences, FiniteSets, TLC

\* ------------------------------------------------------------------ bounds
MaxTurns == 1
MaxMemoTurns == 2
MaxFrames == 2
MaxRequests == 1
MaxClients == 3
MaxRetries == 3
MaxUpdates == 3

\* --------------------------------------------------------------- constants
None == "None"

\* A service handle of the agent is None ("absent"), one of the repository's
\* service classes ("wrapper"), or a test double whose calls may also raise.
ServiceConfigs ==
  { [gemini |-> "absent",  es |-> "absent",  redis |-> "absent",  vdb |-> "absent"],
    [gemini |-> "wrapper", es |-> "wrapper", redis |-> "wrapper", vdb |-> "wrapper"],
    [gemini |-> "wrapper", es |-> "wrapper", redis |-> "wrapper", vdb |-> "absent"],
    [gemini |-> "double",  es |-> "double",  redis |-> "double",  vdb |-> "double"],
    [gemini |-> "double",  es |-> "double",  redis |-> "double",  vdb |-> "absent"] }

RegistryServices ==
  [gemini |-> "wrapper", es |-> "wrapper", redis |-> "wrapper", vdb |-> "wrapper"]

\* A message text: its content once stripped, the length of that content and
\* the number of surrounding whitespace characters.
Text(core, len, pad) == [core |-> core, len |-> len, pad |-> pad]
strip(t) == [t EXCEPT !.pad = 0]
length(t) == t.len + t.pad

Hello == Text("hello", 5, 0)
Messages == {Hello, Text("show sales by region", 20, 0)}
SessionIds == {"s1", None}

MaxMessageLength == 1000
max_query_size == 1000

\* Texts a client can put in a chat request: well-formed ones (one of them
\* exactly at the limit), the empty and the blank text, one over the limit,
\* and one that is over the limit only with its surrounding whitespace.
EmptyMessage == Text("", 0, 0)
BlankMessage == Text("", 0, 3)
LongMessage == Text("long", MaxMessageLength + 1, 0)
PaddedMessage == Text("padded", MaxMessageLength - 1, 2)
LimitMessage == Text("limit", MaxMessageLength, 0)
ChatTexts ==
  {Hello, EmptyMessage, BlankMessage, LongMessage, PaddedMessage, LimitMessage}

GatewayTexts == {Hello, BlankMessage, LongMessage, PaddedMessage}

ConnectionId == "c1"
GeneratedSessionId == "uuid4"

QueryIntents == {"search", "aggregate", "filter", "chart", "count"}
ValidIntents == QueryIntents \cup {"general"}

\* Intent analyses as GeminiService._validate_intent_analysis returns them
\* (intent and named index are the fields the workflow branches on).
IntentAnalyses ==
  { [intent |-> i, index |-> None] : i \in ValidIntents }
    \cup { [intent |-> "search", index |-> "orders"] }

NoIntentAnalysis == [intent |-> None, index |-> None]
FallbackIntentAnalysis == [intent |-> "general", index |-> None]

SystemIndices == {".kibana"}
SampleCluster == <<".kibana", "sample-sales">>
RawIndexLists == { <<>>, SampleCluster, <<"orders", "sample-logs">> }

\* Structured queries the LLM query synthesis can return; "{}" is the empty
\* JSON object, "match_all" the fallback {"query": {"match_all": {}}}.
EmptyQuery == "{}"
MatchAll == "match_all"
Queries == {EmptyQuery, MatchAll, "terms_agg"}

ErrConnect == "Failed to connect to Elasticsearch"
ErrIntent == "Failed to analyze your request"
ErrGenerate == "Failed to generate query"
ErrNoIndex == "No suitable Elasticsearch index found"
ErrSearch == "Search failed"
ErrExecute == "Failed to execute query"

NoResults == [none |-> TRUE, total_hits |-> 0, data |-> <<>>, error |-> None]
ZeroResults == [none |-> FALSE, total_hits |-> 0, data |-> <<>>, error |-> None]
SearchResults ==
  { ZeroResults,
    [none |-> FALSE, total_hits |-> 1, data |-> <<"doc">>, error |-> None],
    [none |-> FALSE, total_hits |-> 0, data |-> <<>>, error |-> ErrSearch] }

NoChart == "None"
Insight == "insight"

\* Response texts, by the place that writes them.
EmptyText == [kind |-> "empty", err |-> None]
LLMText == [kind |-> "llm", err |-> None]
TroubleText == [kind |-> "trouble", err |-> None]
GenericApology == [kind |-> "generic", err |-> None]
GatewayApology == [kind |-> "gateway_apology", err |-> None]
ErrorApology(e) == [kind |-> "apology", err |-> e]

VARIABLES
  svc,      \* the agent's four service handles
  cluster,  \* the indices of the search cluster, system indices included
  caller,   \* who awaits process_message: "none", "direct", "http", "ws"
  pc,       \* position of the turn in the workflow
  state,    \* AgentState of the turn in flight
  result,   \* what process_message gave its caller
  calls,    \* calls made on the services during the turn, in order
  cache,    \* Redis query cache: key -> stored text
  turns,    \* turns started so far
  turn_limit,   \* turns the clients will ask for
  registry,     \* dependencies.py singletons: name -> constructed
  lifespan,     \* position of main.py's lifespan: "startup", "serving", "shutdown"
  route_resp,   \* the answer of the last GET route
  lookup,       \* the last call of a registry accessor and what it gave
  search,       \* the last call of simple_search and what it gave
  issued,       \* connection ids ConnectionManager.connect has generated
  http_pc,      \* position of the POST /chat request
  http_req,     \* the request body
  http_resp,    \* the HTTP answer
  http_calls,   \* calls the dependencies and the route made on the services
  requests,     \* requests received so far
  active_connections,  \* ConnectionManager.active_connections (its keys)
  sessions,     \* ConnectionManager.sessions: session id -> connection id
  ws_pc,        \* position of handle_websocket_chat
  ws_agent,     \* the agent argument of handle_websocket_chat
  socket_ok,    \* the transport still carries frames
  emitted,      \* envelopes handed to send_message for the frame being handled
  delivered,    \* those of them that were written to the socket
  ws_calls,     \* calls the handler made on its redis_service
  frames,       \* inbound frames read so far
  ws_last,      \* the frame being handled and how its handling ended
  probe,        \* the last health check of a service class and what it gave
  kv,           \* the Redis keyspace: key -> stored text and time to live
  kv_last,      \* the last operation of RedisService and what it gave
  llm,          \* the call of GeminiService.generate_content in flight
  unit,         \* the last call of a helper function and what it gave
  user_profiles,  \* QueryIntelligenceService.user_profiles: session -> profile
  profile_last    \* the last call of update_user_profile and how it ended

turnVars == <<svc, cluster, turn_limit, caller, pc, state, result, calls, cache, turns>>
profileVars == <<user_profiles, profile_last>>
unitVars == <<probe, kv, kv_last, llm, unit, profileVars>>
opsVars == <<route_resp, lookup, search, issued, unitVars>>
httpVars == <<registry, lifespan, http_pc, http_req, http_resp, http_calls, requests,
              opsVars>>
wsVars == <<active_connections, sessions, ws_pc, ws_agent, socket_ok, emitted,
            delivered, ws_calls, frames, ws_last>>
vars == <<turnVars, httpVars, wsVars>>

\* ----------------------------------------------------------------- helpers
Truthy(x) == x # None /\ x # EmptyQuery

\* Outcomes of a call made on a handle of the given kind.
Outcomes(kind, wrapperOutcomes) ==
  IF kind = "absent" THEN {"raise"}
  ELSE IF kind = "double" THEN wrapperOutcomes \cup {"raise"}
  ELSE wrapperOutcomes

\* A call on None never starts: the attribute lookup raises first.
Logged(kind, name) == IF kind = "absent" THEN <<>> ELSE <<name>>

Made(name) == \E i \in 1..Len(calls) : calls[i] = name
Count(name) == Cardinality({ i \in 1..Len(calls) : calls[i] = name })
Before(a, b) ==
  \A j \in 1..Len(calls) : calls[j] = b => \E i \in 1..(j - 1) : calls[i] = a

initial_state(m, s) ==
  [ user_message |-> m,
    session_id |-> s,
    intent_analysis |-> NoIntentAnalysis,
    elasticsearch_query |-> None,
    query_results |-> NoResults,
    response_message |-> EmptyText,
    chart_config |-> NoChart,
    available_indices |-> <<>>,
    error |-> None,
    query_insight |-> None,
    personalized_suggestions |-> <<>> ]

NoResult ==
  [ status |-> "none", response |-> EmptyText, chart_config |-> NoChart,
    data |-> <<>>, intent |-> None ]

\* ElasticsearchService.list_indices: failures are swallowed into [].
list_indices(outcome, raw) ==
  IF outcome = "down" THEN <<>>
  ELSE SelectSeq(raw, LAMBDA i : i \notin SystemIndices)

\* RedisService.set / get: dicts are stored as JSON text and parsed back.
json_dumps(q) == <<"json", q>>
json_loads(t) == t[2]

generate_query_hash(user_message, intent_analysis) ==
  <<user_message, intent_analysis>>

InSeq(x, s) == \E i \in 1..Len(s) : s[i] = x

determine_target_index_unfiltered(intent_analysis, available_indices) ==
  LET intent == intent_analysis.intent
  IN IF available_indices = <<>> THEN None
     ELSE IF Truthy(intent_analysis.index) /\ InSeq(intent_analysis.index, available_indices)
       THEN intent_analysis.index
     ELSE IF InSeq("sample-sales", available_indices)
             /\ intent \in {"chart", "aggregate", "search"}
       THEN "sample-sales"
     ELSE IF InSeq("sample-logs", available_indices) /\ intent \in {"search", "filter"}
       THEN "sample-logs"
     ELSE available_indices[1]

determine_target_index(intent_analysis, available_indices) ==
  LET user_indices == SelectSeq(available_indices, LAMBDA i : i \notin SystemIndices)
      intent == intent_analysis.intent
  IN IF available_indices = <<>> THEN None
     ELSE IF Truthy(intent_analysis.index) /\ InSeq(intent_analysis.index, available_indices)
       THEN intent_analysis.index
     ELSE IF InSeq("sample-sales", available_indices)
             /\ intent \in {"chart", "aggregate", "search"}
       THEN "sample-sales"
     ELSE IF InSeq("sample-logs", available_indices) /\ intent \in {"search", "filter"}
       THEN "sample-logs"
     ELSE IF user_indices # <<>> THEN user_indices[1]
     ELSE available_indices[1]

should_query_elasticsearch_ignoring_error(st) ==
  IF st.intent_analysis.intent \in QueryIntents THEN "query" ELSE "skip"

should_query_elasticsearch(st) ==
  IF Truthy(st.error) THEN "skip"
  ELSE IF st.intent_analysis.intent \in QueryIntents THEN "query"
  ELSE "skip"

\* -------------------------------------------------------------------- Init
TurnIdle ==
  /\ pc = "idle"
  /\ state = initial_state(Hello, None)
  /\ result = NoResult
  /\ calls = <<>>
  /\ cache = [k \in {} |-> None]
  /\ turns = 0

NoResponse == [status |-> 0, response |-> EmptyText, data |-> <<>>]
NoFrame ==
  [json |-> None, type |-> None, field |-> "missing", message |-> EmptyMessage]
NoHandling == [frame |-> NoFrame, outcome |-> "none"]

Singletons == {"es", "gemini", "redis", "vdb", "agent"}
AllConstructed == [n \in Singletons |-> TRUE]
AllCleared == [n \in Singletons |-> FALSE]

ServiceNames == {"elasticsearch", "redis", "gemini", "vector_db"}
NoRouteResponse ==
  [ route |-> None, constructed |-> FALSE, status |-> 0, overall |-> None,
    services |-> [n \in ServiceNames |-> FALSE], ping |-> "not_called" ]
NoLookup ==
  [ name |-> None, constructed |-> FALSE, health |-> None, ok |-> FALSE,
    status |-> 0, calls |-> <<>> ]
NoSearch ==
  [ index |-> None, query |-> None, size |-> 0, phase |-> "idle",
    outcome |-> None, raised |-> None, contacted |-> FALSE, total_hits |-> 0,
    data |-> <<>>, aggregations |-> <<>>, error |-> None ]

\* Python values that cross a service boundary: the type and, for a string,
\* its characters, for any other type the JSON text of the value.
PyValue(t, v) == [t |-> t, v |-> v]
PyNone == PyValue("none", "null")
PyTrue == PyValue("bool", "true")
PyFalse == PyValue("bool", "false")
PyBool(b) == IF b THEN PyTrue ELSE PyFalse
PyInt(digits) == PyValue("int", digits)
PyStr(chars) == PyValue("str", chars)

\* How a call ended: the value it returned, or the exception it let through.
Returned(v) == [ret |-> v, exc |-> None]
Raised(e) == [ret |-> PyNone, exc |-> e]
NoReturn == [ret |-> PyNone, exc |-> "pending"]

NoProbe == [service |-> None, client |-> None, transport |-> None,
            answer |-> None, result |-> NoReturn]
NoKvOp == [op |-> None, key |-> None, value |-> PyNone, expire |-> 0,
           transport |-> None, result |-> NoReturn]
NoGenerate == [phase |-> "idle", client |-> None, prompt |-> None,
               retry_count |-> 0, attempt |-> 0, api_calls |-> 0,
               outcomes |-> <<>>, sleeps |-> <<>>, result |-> NoReturn]
NoUnit == [fn |-> None, phase |-> "idle", args |-> <<>>, ret |-> None]

NoProfileUpdate ==
  [ session_id |-> None, pattern |-> None, hint |-> None, chart_type |-> None,
    fields |-> None, outcome |-> "none", calls |-> 0, completed |-> 0 ]

ProfilesIdle ==
  /\ user_profiles = [k \in {} |-> None]
  /\ profile_last = NoProfileUpdate

UnitIdle ==
  /\ probe = NoProbe
  /\ kv = [k \in {} |-> None]
  /\ kv_last = NoKvOp
  /\ llm = NoGenerate
  /\ unit = NoUnit
  /\ ProfilesIdle

OpsIdle ==
  /\ route_resp = NoRouteResponse
  /\ lookup = NoLookup
  /\ search = NoSearch
  /\ issued = {}
  /\ UnitIdle

HttpIdle ==
  /\ OpsIdle
  /\ http_pc = "idle"
  /\ http_req = [message |-> EmptyMessage, session_id |-> None]
  /\ http_resp = NoResponse
  /\ http_calls = <<>>
  /\ requests = 0

\* ConnectionManager() with no connection accepted yet.
WsIdle ==
  /\ active_connections = {}
  /\ sessions = [k \in {} |-> None]
  /\ ws_pc = "new"
  /\ socket_ok = TRUE
  /\ emitted = <<>>
  /\ delivered = <<>>
  /\ ws_calls = <<>>
  /\ frames = 0
  /\ ws_last = NoHandling

Init ==
  /\ turn_limit = MaxTurns
  /\ svc \in ServiceConfigs
  /\ cluster \in RawIndexLists
  /\ caller = "none"
  /\ ws_agent = "depends"
  /\ registry = AllCleared
  /\ lifespan = "startup"
  /\ TurnIdle /\ HttpIdle /\ WsIdle

\* ----------------------------------------------------------------- actions
\* process_message, up to the start of the workflow.
BeginTurn(m, s, c) ==
  /\ state' = initial_state(m, s)
  /\ result' = NoResult
  /\ calls' = <<>>
  /\ turns' = turns + 1
  /\ caller' = c
  /\ pc' = "get_indices"

TurnFree == pc \in {"idle", "done", "cancelled"}

process_message ==
  /\ TurnFree
  /\ turns < turn_limit
  /\ \E m \in Messages, s \in SessionIds : BeginTurn(m, s, "direct")
  /\ UNCHANGED <<svc, cluster, turn_limit, cache, httpVars, wsVars>>

get_available_indices ==
  /\ pc = "get_indices"
  /\ \E o \in Outcomes(svc.es, {"ok", "down"}) :
       state' = IF o = "raise"
                  THEN [state EXCEPT !.available_indices = <<>>, !.error = ErrConnect]
                  ELSE [state EXCEPT !.available_indices = list_indices(o, cluster)]
  /\ calls' = calls \o Logged(svc.es, "es.list_indices")
  /\ pc' = "analyze_intent"
  /\ UNCHANGED <<svc, cluster, turn_limit, caller, result, cache, turns, httpVars, wsVars>>

analyze_intent ==
  /\ pc = "analyze_intent"
  /\ \E o \in Outcomes(svc.gemini, {"ok"}), ia \in IntentAnalyses :
       state' = IF o = "raise"
                  THEN [state EXCEPT !.intent_analysis = FallbackIntentAnalysis,
                                     !.error = ErrIntent]
                  ELSE [state EXCEPT !.intent_analysis = ia]
  /\ calls' = calls
       \o (IF svc.vdb # "absent" THEN <<"vdb.find_similar_queries">> ELSE <<>>)
       \o (IF svc.vdb # "absent" /\ Truthy(state.session_id)
             THEN <<"vdb.get_conversation_context">> ELSE <<>>)
       \o Logged(svc.gemini, "llm.analyze_query_intent")
  /\ pc' = "analyze_intelligence"
  /\ UNCHANGED <<svc, cluster, turn_limit, caller, result, cache, turns, httpVars, wsVars>>

analyze_query_intelligence_setting_error ==
  /\ pc = "analyze_intelligence"
  /\ \E i \in {"ok", "raise"} :
       state' = IF i = "raise"
                  THEN [state EXCEPT !.query_insight = None,
                                     !.personalized_suggestions = <<>>,
                                     !.error = ErrIntent]
                  ELSE [state EXCEPT
                          !.query_insight = Insight,
                          !.personalized_suggestions =
                             IF Truthy(state.session_id) THEN <<"suggestion">> ELSE @]
  /\ calls' = calls
       \o (IF svc.vdb # "absent" /\ Truthy(state.session_id)
             THEN <<"vdb.get_conversation_context">> ELSE <<>>)
  /\ pc' = "route"
  /\ UNCHANGED <<svc, cluster, turn_limit, caller, result, cache, turns, httpVars, wsVars>>

\* _analyze_query_intelligence.  i: how the calls on the module's
\* query_intelligence_service went; a raise is caught inside the stage.
analyze_query_intelligence ==
  /\ pc = "analyze_intelligence"
  /\ \E i \in {"ok", "raise"} :
       state' = IF i = "raise"
                  THEN [state EXCEPT !.query_insight = None,
                                     !.personalized_suggestions = <<>>]
                  ELSE [state EXCEPT
                          !.query_insight = Insight,
                          !.personalized_suggestions =
                             IF Truthy(state.session_id) THEN <<"suggestion">> ELSE @]
  /\ calls' = calls
       \o (IF svc.vdb # "absent" /\ Truthy(state.session_id)
             THEN <<"vdb.get_conversation_context">> ELSE <<>>)
  /\ pc' = "route"
  /\ UNCHANGED <<svc, cluster, turn_limit, caller, result, cache, turns, httpVars, wsVars>>

\* The conditional edge after analyze_intelligence.
route ==
  /\ pc = "route"
  /\ pc' = IF should_query_elasticsearch(state) = "query"
             THEN "generate_query" ELSE "generate_response"
  /\ UNCHANGED <<svc, cluster, turn_limit, caller, state, result, calls, cache, turns, httpVars, wsVars>>

\* _generate_elasticsearch_query.  g, s: outcomes of the cache read and the
\* cache write; l, q: outcome and result of the LLM query synthesis.
generate_elasticsearch_query ==
  /\ pc = "generate_query"
  /\ \E g \in Outcomes(svc.redis, {"ok", "down"}),
        l \in Outcomes(svc.gemini, {"ok"}),
        q \in Queries,
        s \in Outcomes(svc.redis, {"ok", "down"}) :
       LET key == generate_query_hash(state.user_message, state.intent_analysis)
           cached_query == IF g = "ok" /\ key \in DOMAIN cache
                             THEN json_loads(cache[key]) ELSE None
           hit == g # "raise" /\ Truthy(cached_query)
           synth == g # "raise" /\ ~hit
           failed == g = "raise" \/ (synth /\ (l = "raise" \/ s = "raise"))
           wrote == synth /\ l = "ok" /\ s = "ok"
       IN /\ state' =
               IF failed
                 THEN [state EXCEPT !.elasticsearch_query = MatchAll,
                                    !.error = ErrGenerate]
               ELSE IF hit
                 THEN [state EXCEPT !.elasticsearch_query = cached_query]
               ELSE [state EXCEPT !.elasticsearch_query = q]
          /\ cache' =
               IF wrote
                 THEN [k \in DOMAIN cache \cup {key} |->
                         IF k = key THEN json_dumps(q) ELSE cache[k]]
                 ELSE cache
          /\ calls' = calls
               \o Logged(svc.redis, "redis.get_cached_query")
               \o (IF g = "down" THEN <<"redis.failed">> ELSE <<>>)
               \o (IF synth THEN Logged(svc.gemini, "llm.generate_elasticsearch_query")
                   ELSE <<>>)
               \o (IF synth /\ l = "ok" THEN Logged(svc.redis, "redis.cache_query_result")
                   ELSE <<>>)
               \o (IF synth /\ l = "ok" /\ s = "down" THEN <<"redis.failed">> ELSE <<>>)
  /\ pc' = "execute_query"
  /\ UNCHANGED <<svc, cluster, turn_limit, caller, result, turns, httpVars, wsVars>>

execute_query_clearing_error ==
  /\ pc = "execute_query"
  /\ \E o \in Outcomes(svc.es, {"ok"}), r \in SearchResults :
       LET target_index ==
             determine_target_index(state.intent_analysis, state.available_indices)
           \* simple_search rejects an empty query with ValueError
           raised == o = "raise"
                       \/ (svc.es = "wrapper" /\ ~Truthy(state.elasticsearch_query))
       IN IF ~Truthy(target_index)
            THEN /\ state' = [state EXCEPT !.error = ErrNoIndex,
                                           !.query_results = ZeroResults]
                 /\ calls' = calls
          ELSE IF raised
            THEN /\ state' = [state EXCEPT !.query_results = ZeroResults,
                                           !.error = ErrExecute]
                 /\ calls' = calls \o Logged(svc.es, "es.simple_search")
          ELSE IF Truthy(r.error)
            THEN /\ state' = [state EXCEPT !.error = r.error,
                                           !.query_results = ZeroResults]
                 /\ calls' = calls \o <<"es.simple_search">>
          ELSE /\ state' = [state EXCEPT
                    !.query_results = r,
                    !.error = None,
                    !.chart_config = IF r.total_hits > 0 THEN "chart" ELSE @]
               /\ calls' = calls \o <<"es.simple_search">>
                    \o (IF r.total_hits > 0 /\ r.data # <<>>
                          THEN Logged(svc.gemini, "llm.generate_enhanced_chart_recommendations")
                          ELSE <<>>)
  /\ pc' = "generate_response"
  /\ UNCHANGED <<svc, cluster, turn_limit, caller, result, cache, turns, httpVars, wsVars>>

\* _execute_query.  o, r: outcome and result of simple_search.
execute_query ==
  /\ pc = "execute_query"
  /\ \E o \in Outcomes(svc.es, {"ok"}), r \in SearchResults :
       LET target_index ==
             determine_target_index(state.intent_analysis, state.available_indices)
           \* simple_search rejects an empty query with ValueError
           raised == o = "raise"
                       \/ (svc.es = "wrapper" /\ ~Truthy(state.elasticsearch_query))
       IN IF ~Truthy(target_index)
            THEN /\ state' = [state EXCEPT !.error = ErrNoIndex,
                                           !.query_results = ZeroResults]
                 /\ calls' = calls
          ELSE IF raised
            THEN /\ state' = [state EXCEPT !.query_results = ZeroResults,
                                           !.error = ErrExecute]
                 /\ calls' = calls \o Logged(svc.es, "es.simple_search")
          ELSE IF Truthy(r.error)
            THEN /\ state' = [state EXCEPT !.error = r.error,
                                           !.query_results = ZeroResults]
                 /\ calls' = calls \o <<"es.simple_search">>
          ELSE /\ state' = [state EXCEPT
                    !.query_results = r,
                    !.chart_config = IF r.total_hits > 0 THEN "chart" ELSE @]
               /\ calls' = calls \o <<"es.simple_search">>
                    \o (IF r.total_hits > 0 /\ r.data # <<>>
                          THEN Logged(svc.gemini, "llm.generate_enhanced_chart_recommendations")
                          ELSE <<>>)
  /\ pc' = "generate_response"
  /\ UNCHANGED <<svc, cluster, turn_limit, caller, result, cache, turns, httpVars, wsVars>>

generate_response_unguarded_store ==
  /\ pc = "generate_response"
  /\ \E o \in Outcomes(svc.gemini, {"ok"}),
        e \in Outcomes(svc.vdb, {"ok"}),
        c \in Outcomes(svc.vdb, {"ok"}),
        u \in {"ok", "raise"} :
       LET query_results == state.query_results
           has_error == Truthy(state.error)
           \* GeminiService.generate_response_message reads query_results.get
           \* while building its prompt, before its own try block
           summary_raised == o = "raise"
                               \/ (svc.gemini = "wrapper" /\ query_results.none)
           \* query_results.get("total_hits", 0) of the store-example guard
           guard_raised == svc.vdb # "absent" /\ query_results.none
           aborted == ~has_error /\ (summary_raised \/ guard_raised)
           store_example == ~has_error /\ ~aborted /\ svc.vdb # "absent"
                              /\ query_results.total_hits > 0
           store_context == ~aborted /\ ~(store_example /\ e = "raise") /\ svc.vdb # "absent" /\ Truthy(state.session_id)
           update_profile == ~aborted /\ ~(store_example /\ e = "raise")
                               /\ Truthy(state.query_insight)
                               /\ Truthy(state.session_id)
       IN /\ state' = [state EXCEPT !.response_message =
                         IF has_error THEN ErrorApology(state.error)
                         ELSE IF aborted \/ (store_example /\ e = "raise") THEN TroubleText
                         ELSE LLMText]
          /\ calls' = calls
               \o (IF ~has_error THEN Logged(svc.gemini, "llm.generate_response_message")
                   ELSE <<>>)
               \o (IF store_example THEN <<"vdb.store_query_example">> ELSE <<>>)
               \o (IF store_example /\ e = "raise"
                     THEN <<"vdb.store_query_example.raised">> ELSE <<>>)
               \o (IF store_context THEN <<"vdb.store_conversation_context">> ELSE <<>>)
               \o (IF store_context /\ c = "raise"
                     THEN <<"vdb.store_conversation_context.raised">> ELSE <<>>)
               \o (IF update_profile THEN <<"qi.update_user_profile">> ELSE <<>>)
               \o (IF update_profile /\ u = "raise"
                     THEN <<"qi.update_user_profile.raised">> ELSE <<>>)
  /\ pc' = "finish"
  /\ UNCHANGED <<svc, cluster, turn_limit, caller, result, cache, turns, httpVars, wsVars>>

\* _generate_response.  o: outcome of the LLM summary call; e, c, u: outcomes
\* of store_query_example, store_conversation_context and update_user_profile
\* (the repository's VectorDBService catches its own failures; a raise of any
\* of the three is caught by the try around that call).
generate_response ==
  /\ pc = "generate_response"
  /\ \E o \in Outcomes(svc.gemini, {"ok"}),
        e \in Outcomes(svc.vdb, {"ok"}),
        c \in Outcomes(svc.vdb, {"ok"}),
        u \in {"ok", "raise"} :
       LET query_results == state.query_results
           has_error == Truthy(state.error)
           \* GeminiService.generate_response_message reads query_results.get
           \* while building its prompt, before its own try block
           summary_raised == o = "raise"
                               \/ (svc.gemini = "wrapper" /\ query_results.none)
           \* query_results.get("total_hits", 0) of the store-example guard
           guard_raised == svc.vdb # "absent" /\ query_results.none
           aborted == ~has_error /\ (summary_raised \/ guard_raised)
           store_example == ~has_error /\ ~aborted /\ svc.vdb # "absent"
                              /\ query_results.total_hits > 0
           store_context == ~aborted /\ svc.vdb # "absent" /\ Truthy(state.session_id)
           update_profile == ~aborted /\ Truthy(state.query_insight)
                               /\ Truthy(state.session_id)
       IN /\ state' = [state EXCEPT !.response_message =
                         IF has_error THEN ErrorApology(state.error)
                         ELSE IF aborted THEN TroubleText
                         ELSE LLMText]
          /\ calls' = calls
               \o (IF ~has_error THEN Logged(svc.gemini, "llm.generate_response_message")
                   ELSE <<>>)
               \o (IF store_example THEN <<"vdb.store_query_example">> ELSE <<>>)
               \o (IF store_example /\ e = "raise"
                     THEN <<"vdb.store_query_example.raised">> ELSE <<>>)
               \o (IF store_context THEN <<"vdb.store_conversation_context">> ELSE <<>>)
               \o (IF store_context /\ c = "raise"
                     THEN <<"vdb.store_conversation_context.raised">> ELSE <<>>)
               \o (IF update_profile THEN <<"qi.update_user_profile">> ELSE <<>>)
               \o (IF update_profile /\ u = "raise"
                     THEN <<"qi.update_user_profile.raised">> ELSE <<>>)
  /\ pc' = "finish"
  /\ UNCHANGED <<svc, cluster, turn_limit, caller, result, cache, turns, httpVars, wsVars>>

\* The record process_message builds from the final workflow state; reading
\* .get("data") of an absent query_results raises inside the try block.
process_message_result_uncaught(st) ==
  IF st.query_results.none
    THEN [ status |-> "raised", response |-> EmptyText,
           chart_config |-> NoChart, data |-> <<>>, intent |-> None ]
    ELSE [ status |-> "returned", response |-> st.response_message,
           chart_config |-> st.chart_config, data |-> st.query_results.data,
           intent |-> st.intent_analysis.intent ]

process_message_result(st) ==
  IF st.query_results.none
    THEN [ status |-> "returned", response |-> GenericApology,
           chart_config |-> NoChart, data |-> <<>>, intent |-> "error" ]
    ELSE [ status |-> "returned", response |-> st.response_message,
           chart_config |-> st.chart_config, data |-> st.query_results.data,
           intent |-> st.intent_analysis.intent ]

process_message_return ==
  /\ pc = "finish"
  /\ result' = process_message_result(state)
  /\ pc' = "done"
  /\ UNCHANGED <<svc, cluster, turn_limit, caller, state, calls, cache, turns, httpVars, wsVars>>

\* A cached query reaches its 3600 s expiry between two turns.
expire_cached_query ==
  /\ pc = "done"
  /\ \E key \in DOMAIN cache :
       cache' = [k \in DOMAIN cache \ {key} |-> cache[k]]
  /\ UNCHANGED <<svc, cluster, turn_limit, caller, pc, state, result, calls, turns, httpVars, wsVars>>

\* One stage of the workflow, or the return of process_message.
TurnStep ==
  \/ get_available_indices
  \/ analyze_intent
  \/ analyze_query_intelligence
  \/ route
  \/ generate_elasticsearch_query
  \/ execute_query
  \/ generate_response
  \/ process_message_return
  \/ expire_cached_query

\* The AgentState of a turn is garbage once its awaiting caller has resumed.
TurnDropped ==
  /\ state' = initial_state(Hello, None)
  /\ calls' = <<>>

\* asyncio.wait_for can only cancel the turn at one of its await points.
Cancellable ==
  pc \in {"get_indices", "analyze_intent", "analyze_intelligence", "route",
          "generate_query", "execute_query", "generate_response"}

Next ==
  \/ process_message
  \/ TurnStep

Spec == Init /\ [][Next]_vars

\* graph.ainvoke runs a stage as soon as the one before it has returned, and
\* every await of a stage ends (in a value or in an exception).
SpecTurn == Spec /\ WF_vars(TurnStep)

\* _build_graph: the nodes, the entry point and the edges of the workflow;
\* the two targets of the conditional edge are edges of analyze_intelligence.
END == "END"
WorkflowNodes ==
  {"analyze_intent", "get_indices", "analyze_intelligence", "generate_query",
   "execute_query", "generate_response", "error_handler"}
EntryPoint == "get_indices"
WorkflowEdges_into_handler ==
  { <<"get_indices", "analyze_intent">>,
    <<"analyze_intent", "analyze_intelligence">>,
    <<"analyze_intelligence", "generate_query">>,
    <<"analyze_intelligence", "error_handler">>,
    <<"generate_query", "execute_query">>,
    <<"execute_query", "generate_response">>,
    <<"generate_response", END>>,
    <<"error_handler", END>> }

WorkflowEdges ==
  { <<"get_indices", "analyze_intent">>,
    <<"analyze_intent", "analyze_intelligence">>,
    <<"analyze_intelligence", "generate_query">>,
    <<"analyze_intelligence", "generate_response">>,
    <<"generate_query", "execute_query">>,
    <<"execute_query", "generate_response">>,
    <<"generate_response", END>>,
    <<"error_handler", END>> }

Successors(nodes) == { e[2] : e \in {x \in WorkflowEdges : x[1] \in nodes} }
RECURSIVE ReachableFrom(_)
ReachableFrom(nodes) ==
  IF Successors(nodes) \subseteq nodes THEN nodes
  ELSE ReachableFrom(nodes \cup Successors(nodes))

\* The node a position of the turn belongs to: "route" is the conditional edge
\* of analyze_intelligence, "finish" is past the last node.
NodeOf(position) ==
  IF position = "route" THEN "analyze_intelligence"
  ELSE IF position = "finish" THEN END
  ELSE position

\* Successive turns of one agent built by the registry, for the query cache.
InitMemo ==
  /\ turn_limit = MaxMemoTurns
  /\ svc = RegistryServices
  /\ cluster = SampleCluster
  /\ caller = "none"
  /\ ws_agent = "depends"
  /\ registry = AllConstructed
  /\ lifespan = "serving"
  /\ TurnIdle /\ HttpIdle /\ WsIdle

SpecMemo == InitMemo /\ [][Next]_vars

\* ------------------------------------------------------- POST /api/v1/chat
\* lifespan startup: initialize_services().
initialize_services ==
  /\ http_pc # "awaiting_agent"
  /\ lifespan # "serving"
  /\ registry' = AllConstructed
  /\ lifespan' = "serving"
  /\ UNCHANGED <<turnVars, http_pc, http_req, http_resp, http_calls, requests,
                 opsVars, wsVars>>

\* lifespan shutdown: cleanup_services().  c is how the closing went: the
\* close() of the Elasticsearch and of the Redis service await the client's
\* close with no try around it; a raise leaves the function before the
\* references are reset.
cleanup_services ==
  /\ http_pc # "awaiting_agent"
  /\ lifespan = "serving"
  /\ \E c \in {"closed", "es_close_raised", "redis_close_raised"} :
       registry' = IF c = "closed" THEN AllCleared ELSE registry
  /\ lifespan' = "shutdown"
  /\ UNCHANGED <<turnVars, http_pc, http_req, http_resp, http_calls, requests,
                 opsVars, wsVars>>

\* The dependencies of a route are resolved before its body runs.
get_elasticsearch_agent(reg) ==
  IF ~reg.agent THEN [ok |-> FALSE, status |-> 503, calls |-> <<>>]
  ELSE [ok |-> TRUE, status |-> 0, calls |-> <<>>]

get_redis_service_ungated(reg, health) ==
  IF ~reg.redis THEN [ok |-> FALSE, status |-> 503, calls |-> <<>>]
  ELSE [ok |-> TRUE, status |-> 0, calls |-> <<"redis.ping">>]

get_redis_service(reg, health) ==
  IF ~reg.redis THEN [ok |-> FALSE, status |-> 503, calls |-> <<>>]
  ELSE IF health # "healthy"
    THEN [ok |-> FALSE, status |-> 503, calls |-> <<"redis.ping">>]
  ELSE [ok |-> TRUE, status |-> 0, calls |-> <<"redis.ping">>]

get_elasticsearch_service(reg, health) ==
  IF ~reg.es THEN [ok |-> FALSE, status |-> 503, calls |-> <<>>]
  ELSE IF health # "healthy"
    THEN [ok |-> FALSE, status |-> 503, calls |-> <<"es.health_check">>]
  ELSE [ok |-> TRUE, status |-> 0, calls |-> <<"es.health_check">>]

get_gemini_service(reg, health) ==
  IF ~reg.gemini THEN [ok |-> FALSE, status |-> 503, calls |-> <<>>]
  ELSE IF health # "healthy"
    THEN [ok |-> FALSE, status |-> 503, calls |-> <<"gemini.health_check">>]
  ELSE [ok |-> TRUE, status |-> 0, calls |-> <<"gemini.health_check">>]

get_vector_db_service(reg, health) ==
  IF ~reg.vdb THEN [ok |-> FALSE, status |-> 503, calls |-> <<>>]
  ELSE IF health # "healthy"
    THEN [ok |-> FALSE, status |-> 503, calls |-> <<"vdb.health_check">>]
  ELSE [ok |-> TRUE, status |-> 0, calls |-> <<"vdb.health_check">>]

Respond(status, response, data) ==
  /\ http_resp' = [status |-> status, response |-> response, data |-> data]
  /\ http_pc' = "responded"

chat_endpoint ==
  /\ http_pc \in {"idle", "responded"}
  /\ requests < MaxRequests
  /\ requests' = requests + 1
  /\ \E m \in ChatTexts, sid \in SessionIds, health \in {"healthy", "unhealthy"} :
       LET agent == get_elasticsearch_agent(registry)
           redis_service == get_redis_service(registry, health)
           session_id == IF Truthy(sid) THEN sid ELSE GeneratedSessionId
       IN /\ http_req' = [message |-> m, session_id |-> sid]
          /\ IF ~agent.ok
               THEN /\ Respond(agent.status, EmptyText, <<>>)
                    /\ http_calls' = agent.calls
                    /\ UNCHANGED turnVars
             ELSE IF ~redis_service.ok
               THEN /\ Respond(redis_service.status, EmptyText, <<>>)
                    /\ http_calls' = agent.calls \o redis_service.calls
                    /\ UNCHANGED turnVars
             ELSE IF strip(m).len = 0 \/ length(m) > MaxMessageLength
               THEN /\ Respond(400, EmptyText, <<>>)
                    /\ http_calls' = agent.calls \o redis_service.calls
                    /\ UNCHANGED turnVars
             ELSE /\ turns < turn_limit
                  /\ TurnFree
                  /\ BeginTurn(strip(m), session_id, "http")
                  /\ http_pc' = "awaiting_agent"
                  /\ http_resp' = NoResponse
                  /\ http_calls' = agent.calls \o redis_service.calls
                  /\ UNCHANGED <<svc, cluster, turn_limit, cache>>
  /\ UNCHANGED <<registry, lifespan, opsVars, wsVars>>

chat_endpoint_complete ==
  /\ http_pc = "awaiting_agent"
  /\ caller = "http"
  /\ pc = "done"
  /\ IF result.status = "raised"
       THEN /\ Respond(500, EmptyText, <<>>)
            /\ http_calls' = http_calls
       ELSE /\ Respond(200, result.response, result.data)
            /\ http_calls' = http_calls \o <<"redis.set_session">>
  /\ caller' = "none"
  /\ TurnDropped
  /\ UNCHANGED <<svc, cluster, turn_limit, pc, result, cache, turns,
                 registry, lifespan, opsVars, http_req, requests, wsVars>>

chat_endpoint_timeout ==
  /\ http_pc = "awaiting_agent"
  /\ caller = "http"
  /\ Cancellable
  /\ pc' = "cancelled"
  /\ caller' = "none"
  /\ Respond(408, EmptyText, <<>>)
  /\ TurnDropped
  /\ UNCHANGED <<svc, cluster, turn_limit, result, cache, turns,
                 registry, lifespan, opsVars, http_req, http_calls, requests, wsVars>>

InitHttp ==
  /\ turn_limit = MaxTurns
  /\ svc = RegistryServices
  /\ cluster = SampleCluster
  /\ caller = "none"
  /\ ws_agent = "depends"
  /\ registry = AllCleared
  /\ lifespan = "startup"
  /\ TurnIdle /\ HttpIdle /\ WsIdle

NextHttp ==
  \/ initialize_services
  \/ cleanup_services
  \/ chat_endpoint
  \/ chat_endpoint_complete
  \/ chat_endpoint_timeout
  \/ TurnStep

SpecHttp == InitHttp /\ [][NextHttp]_vars
\* ------------------------------------------------- registry and GET routes
HealthStates == {"healthy", "unhealthy"}

\* The accessor of dependencies.py for one singleton.
Accessor(name, reg, health) ==
  CASE name = "es" -> get_elasticsearch_service(reg, health)
    [] name = "gemini" -> get_gemini_service(reg, health)
    [] name = "redis" -> get_redis_service(reg, health)
    [] name = "vdb" -> get_vector_db_service(reg, health)
    [] OTHER -> get_elasticsearch_agent(reg)

\* One call of a registry accessor; health is what the backing service
\* would answer to a health check at that moment.
accessor_lookup ==
  /\ \E name \in Singletons, health \in HealthStates :
       LET got == Accessor(name, registry, health)
       IN lookup' = [ name |-> name, constructed |-> registry[name],
                      health |-> health, ok |-> got.ok, status |-> got.status,
                      calls |-> got.calls ]
  /\ UNCHANGED <<turnVars, registry, lifespan, http_pc, http_req, http_resp,
                 http_calls, requests, route_resp, search, issued, unitVars,
                 wsVars>>

\* GET /health.  at_lookup: the health each service reports when FastAPI
\* resolves the route's four dependencies; in_body: what the health checks
\* gathered by the route body give (an exception counts as unhealthy).
health_check ==
  /\ \E at_lookup \in [ServiceNames -> HealthStates],
        in_body \in [ServiceNames -> BOOLEAN] :
       LET es_service == get_elasticsearch_service(registry, at_lookup["elasticsearch"])
           redis_service == get_redis_service(registry, at_lookup["redis"])
           gemini_service == get_gemini_service(registry, at_lookup["gemini"])
           vector_db_service == get_vector_db_service(registry, at_lookup["vector_db"])
           core_services_healthy ==
             in_body["elasticsearch"] /\ in_body["redis"] /\ in_body["gemini"]
       IN route_resp' =
            IF es_service.ok /\ redis_service.ok /\ gemini_service.ok
                 /\ vector_db_service.ok
              THEN [ route |-> "/health", constructed |-> registry = AllConstructed,
                     status |-> 200,
                     overall |-> IF core_services_healthy THEN "healthy"
                                 ELSE "degraded",
                     services |-> in_body, ping |-> "not_called" ]
              ELSE [ NoRouteResponse EXCEPT !.route = "/health",
                       !.constructed = registry = AllConstructed, !.status = 503 ]
  /\ UNCHANGED <<turnVars, registry, lifespan, http_pc, http_req, http_resp,
                 http_calls, requests, lookup, search, issued, unitVars,
                 wsVars>>

\* GET /elasticsearch/info.  The 503 the body raises when ping() is false is
\* raised inside the try whose except Exception answers 500.
get_elasticsearch_info ==
  /\ \E health \in HealthStates, ping \in BOOLEAN :
       LET es_service == get_elasticsearch_service(registry, health)
       IN route_resp' =
            IF ~es_service.ok
              THEN [ NoRouteResponse EXCEPT !.route = "/elasticsearch/info",
                       !.constructed = registry.es, !.status = es_service.status ]
            ELSE IF ~ping
              THEN [ NoRouteResponse EXCEPT !.route = "/elasticsearch/info",
                       !.constructed = registry.es, !.status = 500,
                       !.ping = "false" ]
            ELSE [ NoRouteResponse EXCEPT !.route = "/elasticsearch/info",
                     !.constructed = registry.es, !.status = 200,
                     !.ping = "true" ]
  /\ UNCHANGED <<turnVars, registry, lifespan, http_pc, http_req, http_resp,
                 http_calls, requests, lookup, search, issued, unitVars,
                 wsVars>>

NextRoutes ==
  \/ initialize_services
  \/ cleanup_services
  \/ accessor_lookup
  \/ health_check
  \/ get_elasticsearch_info

SpecRoutes == InitHttp /\ [][NextRoutes]_vars

\* ---------------------------------------- ElasticsearchService.simple_search
\* Arguments of simple_search: index names (the empty string and None
\* included), query objects ("{}" is the empty dict) and requested sizes.
SearchIndices == {"", None, "sample-sales", "missing"}
SearchQueries == Queries \cup {None}
SearchSizes == {0 - 1, 10, max_query_size + 1}

\* What the cluster's search call does: it answers, with the total either a
\* bare count or a {value, relation} object, or it raises NotFoundError, or
\* it raises anything else.
TotalWire(n) == { [shape |-> "count", value |-> n], [shape |-> "object", value |-> n] }
NoTotal == [shape |-> "count", value |-> 0]
MaxHits == 1
SearchAnswers ==
  { [kind |-> "ok", total |-> t, aggregations |-> a] :
      t \in UNION { TotalWire(n) : n \in 0..MaxHits },
      a \in { <<>>, <<"by_region">> } }
  \cup { [kind |-> k, total |-> NoTotal, aggregations |-> <<>>] :
           k \in {"not_found", "failed"} }

Clamp(size) ==
  LET low == IF max_query_size < size THEN max_query_size ELSE size
  IN IF 0 > low THEN 0 ELSE low

Docs(n) == [i \in 1..n |-> "doc"]

simple_search_reraising(index, query, size, answer) ==
  IF index = "" \/ index = None \/ ~Truthy(query) \/ answer.kind # "ok"
    THEN [ NoSearch EXCEPT !.index = index, !.query = query, !.size = size,
             !.phase = "raised", !.raised = "ValueError" ]
  ELSE [ NoSearch EXCEPT !.index = index, !.query = query, !.size = Clamp(size),
           !.phase = "returned", !.outcome = answer.kind, !.contacted = TRUE,
           !.total_hits = answer.total.value,
           !.data = Docs(IF Clamp(size) < answer.total.value
                           THEN Clamp(size) ELSE answer.total.value),
           !.aggregations = answer.aggregations ]

\* simple_search(index, query, size) when the cluster's search call does
\* what answer says.
simple_search(index, query, size, answer) ==
  IF index = "" \/ index = None
    THEN [ NoSearch EXCEPT !.index = index, !.query = query, !.size = size,
             !.phase = "raised", !.raised = "ValueError" ]
  ELSE IF ~Truthy(query)
    THEN [ NoSearch EXCEPT !.index = index, !.query = query, !.size = size,
             !.phase = "raised", !.raised = "ValueError" ]
  ELSE IF answer.kind = "ok"
    THEN [ NoSearch EXCEPT !.index = index, !.query = query, !.size = Clamp(size),
             !.phase = "returned", !.outcome = "ok", !.contacted = TRUE,
             !.total_hits = answer.total.value,
             !.data = Docs(IF Clamp(size) < answer.total.value
                             THEN Clamp(size) ELSE answer.total.value),
             !.aggregations = answer.aggregations ]
  ELSE [ NoSearch EXCEPT !.index = index, !.query = query, !.size = Clamp(size),
           !.phase = "returned", !.outcome = answer.kind, !.contacted = TRUE,
           !.error = IF answer.kind = "not_found" THEN "Index not found"
                     ELSE ErrSearch ]

\* A caller invokes simple_search with the arguments drawn in Init.
simple_search_call ==
  /\ search.phase = "called"
  /\ \E answer \in SearchAnswers :
       search' = simple_search(search.index, search.query, search.size, answer)
  /\ UNCHANGED <<turnVars, registry, lifespan, http_pc, http_req, http_resp,
                 http_calls, requests, route_resp, lookup, issued,
                 unitVars, wsVars>>

InitSearch ==
  /\ turn_limit = MaxTurns
  /\ svc = RegistryServices
  /\ cluster = SampleCluster
  /\ caller = "none"
  /\ ws_agent = "depends"
  /\ registry = AllConstructed
  /\ lifespan = "serving"
  /\ TurnIdle /\ WsIdle
  /\ http_pc = "idle"
  /\ http_req = [message |-> EmptyMessage, session_id |-> None]
  /\ http_resp = NoResponse
  /\ http_calls = <<>>
  /\ requests = 0
  /\ route_resp = NoRouteResponse
  /\ lookup = NoLookup
  /\ issued = {}
  /\ UnitIdle
  /\ \E index \in SearchIndices, query \in SearchQueries, size \in SearchSizes :
       search = [ NoSearch EXCEPT !.index = index, !.query = query,
                    !.size = size, !.phase = "called" ]

NextSearch == simple_search_call

SpecSearch == InitSearch /\ [][NextSearch]_vars

\* ------------------------------------------------------ WebSocket gateway
NoText == Text(None, 0, 0)

Envelope(type, typing, sender, content, text, error) ==
  [ type |-> type, typing |-> typing, sender |-> sender, content |-> content,
    text |-> text, error |-> error,
    chart_config |-> NoChart, data |-> <<>>, intent |-> None ]

TypingEnvelope(is_typing) ==
  Envelope("typing", is_typing, None, EmptyText, NoText, None)
ErrorEnvelope(error_message) ==
  Envelope("error", FALSE, None, EmptyText, NoText, error_message)
PongEnvelope == Envelope("pong", FALSE, None, EmptyText, NoText, None)
UserEcho(user_message) ==
  Envelope("message", FALSE, "user", EmptyText, user_message, None)
AgentMessage(agent_result) ==
  [ Envelope("message", FALSE, "agent", agent_result.response, NoText, None)
      EXCEPT !.chart_config = agent_result.chart_config,
             !.data = agent_result.data,
             !.intent = agent_result.intent ]
ApologyMessage == Envelope("message", FALSE, "agent", GatewayApology, NoText, None)

Frames ==
  { [json |-> "invalid", type |-> None, field |-> "missing", message |-> EmptyMessage],
    [json |-> "object", type |-> "ping", field |-> "missing", message |-> EmptyMessage],
    [json |-> "object", type |-> "subscribe", field |-> "missing", message |-> EmptyMessage],
    [json |-> "object", type |-> "message", field |-> "missing", message |-> EmptyMessage],
    [json |-> "object", type |-> "message", field |-> "number", message |-> EmptyMessage] }
  \cup { [json |-> "object", type |-> "message", field |-> "string", message |-> t] :
           t \in GatewayTexts }

\* ConnectionManager.get_session_id
get_session_id(connection_id) ==
  IF \E s \in DOMAIN sessions : sessions[s] = connection_id
    THEN CHOOSE s \in DOMAIN sessions : sessions[s] = connection_id
    ELSE None

disconnect_keeping_session(connection_id) ==
  /\ active_connections' = active_connections \ {connection_id}
  /\ sessions' = sessions

\* ConnectionManager.disconnect: the connection and one session that maps to it.
disconnect(connection_id) ==
  /\ active_connections' = active_connections \ {connection_id}
  /\ sessions' =
       IF connection_id \in active_connections
            /\ get_session_id(connection_id) # None
         THEN [s \in DOMAIN sessions \ {get_session_id(connection_id)} |-> sessions[s]]
         ELSE sessions

send_messages_unregistering(connection_id, sofar, envelopes) ==
  /\ emitted' = sofar[1] \o envelopes
  /\ delivered' = IF connection_id \in active_connections /\ socket_ok
                    THEN sofar[2] \o envelopes ELSE sofar[2]
  /\ IF connection_id \in active_connections /\ envelopes # <<>>
       THEN disconnect(connection_id)
       ELSE UNCHANGED <<active_connections, sessions>>

\* ConnectionManager.send_message for each envelope in turn: a send on a
\* broken socket unregisters the connection, and the later ones do nothing.
\* emitted and delivered hold the envelopes of the frame being handled: sofar
\* is what that frame's handling has sent before this call.
send_messages(connection_id, sofar, envelopes) ==
  /\ emitted' = sofar[1] \o envelopes
  /\ IF connection_id \in active_connections /\ socket_ok
       THEN /\ delivered' = sofar[2] \o envelopes
            /\ UNCHANGED <<active_connections, sessions>>
     ELSE IF connection_id \in active_connections /\ envelopes # <<>>
       THEN /\ delivered' = sofar[2]
            /\ disconnect(connection_id)
     ELSE /\ delivered' = sofar[2]
          /\ UNCHANGED <<active_connections, sessions>>

\* handle_websocket_chat up to its receive loop: ConnectionManager.connect.
ws_connect ==
  /\ ws_pc = "new"
  /\ \E sid \in SessionIds :
       LET session_id == IF Truthy(sid) THEN sid ELSE GeneratedSessionId
       IN sessions' = [s \in DOMAIN sessions \cup {session_id} |->
                         IF s = session_id THEN ConnectionId ELSE sessions[s]]
  /\ active_connections' = active_connections \cup {ConnectionId}
  /\ ws_pc' = "receive"
  /\ UNCHANGED <<turnVars, httpVars, ws_agent, socket_ok, emitted, delivered,
                 ws_calls, frames, ws_last>>

Reply_closing(f, envelopes, outcome) ==
  /\ emitted' = envelopes
  /\ delivered' = envelopes
  /\ disconnect(ConnectionId)
  /\ ws_last' = [frame |-> f, outcome |-> outcome]
  /\ ws_pc' = "closed"
  /\ UNCHANGED <<turnVars, ws_calls>>

\* A frame answered without a chat turn.
Reply(f, envelopes, outcome) ==
  /\ send_messages(ConnectionId, <<<<>>, <<>>>>, envelopes)
  /\ ws_last' = [frame |-> f, outcome |-> outcome]
  /\ ws_pc' = "receive"
  /\ UNCHANGED <<turnVars, ws_calls>>

\* WebSocketHandler.handle_chat_message up to the await of process_message.
handle_chat_message(f) ==
  LET user_message == strip(f.message)
      session_id == get_session_id(ConnectionId)
  IN IF f.field = "number"
       \* .strip() of a non-string raises: the handler's outer except
       THEN Reply(f, <<TypingEnvelope(FALSE),
                       ErrorEnvelope("An unexpected error occurred")>>, "escaped")
     ELSE IF user_message.len = 0
       THEN Reply(f, <<ErrorEnvelope("Empty message received")>>, "rejected")
     ELSE IF length(user_message) > MaxMessageLength
       THEN Reply(f, <<ErrorEnvelope("Message too long (max 1000 characters)")>>,
                  "rejected")
     ELSE IF session_id = None
       THEN Reply(f, <<ErrorEnvelope("Session not found")>>, "rejected")
     ELSE IF ws_agent = "depends"
       \* self.agent is the Depends marker: self.agent.process_message raises
       \* AttributeError inside the inner try
       THEN Reply(f, <<TypingEnvelope(TRUE), UserEcho(user_message),
                       TypingEnvelope(FALSE), ApologyMessage>>, "failure")
     ELSE /\ turns < turn_limit
          /\ TurnFree
          /\ send_messages(ConnectionId, <<<<>>, <<>>>>,
                           <<TypingEnvelope(TRUE), UserEcho(user_message)>>)
          /\ BeginTurn(user_message, session_id, "ws")
          /\ ws_last' = [frame |-> f, outcome |-> "pending"]
          /\ ws_pc' = "awaiting_agent"
          /\ UNCHANGED <<svc, cluster, turn_limit, cache, ws_calls>>

ws_receive_while_busy ==
  /\ ws_pc \in {"receive", "awaiting_agent"}
  /\ socket_ok
  /\ frames < MaxFrames
  /\ frames' = frames + 1
  /\ \E f \in Frames :
       IF f.json = "invalid"
         THEN Reply(f, <<ErrorEnvelope("Invalid JSON format")>>, "protocol_error")
       ELSE IF f.type = "ping"
         THEN Reply(f, <<PongEnvelope>>, "pong")
       ELSE IF f.type # "message"
         THEN Reply(f, <<ErrorEnvelope("Unknown message type")>>, "protocol_error")
       ELSE handle_chat_message(f)
  /\ UNCHANGED <<httpVars, ws_agent, socket_ok>>

\* One iteration of the receive loop of handle_websocket_chat.
ws_receive ==
  /\ ws_pc = "receive"
  /\ socket_ok
  /\ frames < MaxFrames
  /\ frames' = frames + 1
  /\ \E f \in Frames :
       IF f.json = "invalid"
         THEN Reply(f, <<ErrorEnvelope("Invalid JSON format")>>, "protocol_error")
       ELSE IF f.type = "ping"
         THEN Reply(f, <<PongEnvelope>>, "pong")
       ELSE IF f.type # "message"
         THEN Reply(f, <<ErrorEnvelope("Unknown message type")>>, "protocol_error")
       ELSE handle_chat_message(f)
  /\ UNCHANGED <<httpVars, ws_agent, socket_ok>>

ws_chat_complete_message_first ==
  /\ ws_pc = "awaiting_agent"
  /\ caller = "ws"
  /\ pc = "done"
  /\ send_messages(ConnectionId, <<emitted, delivered>>,
                   <<AgentMessage(result), TypingEnvelope(FALSE)>>)
  /\ ws_last' = [ws_last EXCEPT !.outcome = "success"]
  /\ ws_calls' = ws_calls \o <<"redis.set_session">>
  /\ ws_pc' = "receive"
  /\ caller' = "none"
  /\ TurnDropped
  /\ UNCHANGED <<svc, cluster, turn_limit, pc, result, cache, turns,
                 httpVars, ws_agent, socket_ok, frames>>

\* handle_chat_message after process_message has ended.
ws_chat_complete ==
  /\ ws_pc = "awaiting_agent"
  /\ caller = "ws"
  /\ pc = "done"
  /\ IF result.status = "raised"
       THEN /\ send_messages(ConnectionId, <<emitted, delivered>>,
                                  <<TypingEnvelope(FALSE), ApologyMessage>>)
            /\ ws_last' = [ws_last EXCEPT !.outcome = "failure"]
            /\ ws_calls' = ws_calls
       ELSE /\ send_messages(ConnectionId, <<emitted, delivered>>,
                             <<TypingEnvelope(FALSE), AgentMessage(result)>>)
            /\ ws_last' = [ws_last EXCEPT !.outcome = "success"]
            /\ ws_calls' = ws_calls \o <<"redis.set_session">>
  /\ ws_pc' = "receive"
  /\ caller' = "none"
  /\ TurnDropped
  /\ UNCHANGED <<svc, cluster, turn_limit, pc, result, cache, turns,
                 httpVars, ws_agent, socket_ok, frames>>

ws_chat_timeout_keeps_typing ==
  /\ ws_pc = "awaiting_agent"
  /\ caller = "ws"
  /\ Cancellable
  /\ pc' = "cancelled"
  /\ caller' = "none"
  /\ send_messages(ConnectionId, <<emitted, delivered>>,
       <<ErrorEnvelope("Request timed out. Please try a simpler query.")>>)
  /\ ws_last' = [ws_last EXCEPT !.outcome = "timeout"]
  /\ ws_pc' = "receive"
  /\ TurnDropped
  /\ UNCHANGED <<svc, cluster, turn_limit, result, cache, turns,
                 httpVars, ws_agent, socket_ok, ws_calls, frames>>

\* The 60 s timeout of asyncio.wait_for expires while the turn is suspended.
ws_chat_timeout ==
  /\ ws_pc = "awaiting_agent"
  /\ caller = "ws"
  /\ Cancellable
  /\ pc' = "cancelled"
  /\ caller' = "none"
  /\ send_messages(ConnectionId, <<emitted, delivered>>,
       <<TypingEnvelope(FALSE),
         ErrorEnvelope("Request timed out. Please try a simpler query.")>>)
  /\ ws_last' = [ws_last EXCEPT !.outcome = "timeout"]
  /\ ws_pc' = "receive"
  /\ TurnDropped
  /\ UNCHANGED <<svc, cluster, turn_limit, result, cache, turns,
                 httpVars, ws_agent, socket_ok, ws_calls, frames>>

\* receive_text raises WebSocketDisconnect.
ws_disconnect ==
  /\ ws_pc = "receive"
  /\ disconnect(ConnectionId)
  /\ ws_pc' = "closed"
  /\ UNCHANGED <<turnVars, httpVars, ws_agent, socket_ok, emitted, delivered,
                 ws_calls, frames, ws_last>>

\* The transport fails; the server notices at its next send or receive.
socket_breaks ==
  /\ ws_pc \in {"receive", "awaiting_agent"}
  /\ socket_ok
  /\ socket_ok' = FALSE
  /\ UNCHANGED <<turnVars, httpVars, active_connections, sessions, ws_pc, ws_agent,
                 emitted, delivered, ws_calls, frames, ws_last>>

\* The application once its lifespan startup has run initialize_services().
\* main.py's websocket_endpoint calls handle_websocket_chat(websocket,
\* session_id): agent keeps its default, the Depends marker.  "agent" is a
\* call that passes the registry's ElasticsearchAgent.
InitGateway ==
  /\ turn_limit = MaxTurns
  /\ svc = RegistryServices
  /\ cluster = SampleCluster
  /\ caller = "none"
  /\ ws_agent \in {"depends", "agent"}
  /\ registry = AllConstructed
  /\ lifespan = "serving"
  /\ TurnIdle /\ HttpIdle /\ WsIdle

NextGateway ==
  \/ ws_connect
  \/ ws_receive
  \/ ws_chat_complete
  \/ ws_chat_timeout
  \/ ws_disconnect
  \/ socket_breaks
  \/ TurnStep

SpecGateway == InitGateway /\ [][NextGateway]_vars

\* ------------------------------------------- several gateway connections
\* uuid4 values ConnectionManager.connect can draw for connection ids, and
\* the session id it generates for a client that supplies none.
ClientIds == {"c1", "c2", "c3", "c4"}
ClientSessionIds == {"s1", "s2", None}
GeneratedSessionOf(connection_id) ==
  CASE connection_id = "c1" -> "u1"
    [] connection_id = "c2" -> "u2"
    [] connection_id = "c3" -> "u3"
    [] OTHER -> "u4"

\* ConnectionManager.connect
connect(connection_id, sid) ==
  LET session_id == IF Truthy(sid) THEN sid ELSE GeneratedSessionOf(connection_id)
  IN /\ active_connections' = active_connections \cup {connection_id}
     /\ sessions' = [s \in DOMAIN sessions \cup {session_id} |->
                       IF s = session_id THEN connection_id ELSE sessions[s]]
     /\ issued' = issued \cup {connection_id}

\* A client opens /ws: handle_websocket_chat up to its receive loop.
client_connect ==
  /\ Cardinality(issued) < MaxClients
  /\ \E c \in ClientIds \ issued, sid \in ClientSessionIds : connect(c, sid)
  /\ UNCHANGED <<turnVars, registry, lifespan, http_pc, http_req, http_resp,
                 http_calls, requests, route_resp, lookup, search, unitVars, ws_pc,
                 ws_agent,
                 socket_ok, emitted, delivered, ws_calls, frames, ws_last>>

\* A client's receive loop ends on WebSocketDisconnect.
client_disconnect ==
  /\ \E c \in active_connections : disconnect(c)
  /\ UNCHANGED <<turnVars, httpVars, ws_pc, ws_agent, socket_ok, emitted,
                 delivered, ws_calls, frames, ws_last>>

\* send_message to a client whose socket no longer takes the frame: the
\* except branch unregisters the connection.
client_send_fails ==
  /\ \E c \in active_connections : disconnect(c)
  /\ UNCHANGED <<turnVars, httpVars, ws_pc, ws_agent, socket_ok, emitted,
                 delivered, ws_calls, frames, ws_last>>

\* The receive loop of a connection that a failed send has unregistered ends:
\* disconnect is called for an id that is no longer registered.
client_disconnect_again ==
  /\ \E c \in issued \ active_connections : disconnect(c)
  /\ UNCHANGED <<turnVars, httpVars, ws_pc, ws_agent, socket_ok, emitted,
                 delivered, ws_calls, frames, ws_last>>

InitClients ==
  /\ turn_limit = MaxTurns
  /\ svc = RegistryServices
  /\ cluster = SampleCluster
  /\ caller = "none"
  /\ ws_agent = "depends"
  /\ registry = AllConstructed
  /\ lifespan = "serving"
  /\ TurnIdle /\ HttpIdle /\ WsIdle

NextClients ==
  \/ client_connect
  \/ client_disconnect
  \/ client_send_fails
  \/ client_disconnect_again

SpecClients == InitClients /\ [][NextClients]_vars

\* -------------------------------------------- health checks of the services
\* What a client call does: it answers, or it raises a connection error or
\* some other Exception.
Transports == {"ok", "ConnectionError", "Exception"}
ClusterStatuses == {"green", "yellow", "red"}

\* What generate_content hands health_check: a text, a text of whitespace
\* only, or None.
Generated == {Hello, BlankMessage, EmptyMessage}
NotGenerated == Text(None, 0, 0)

\* ElasticsearchService.health_check.  status: what cluster.health() reports.
es_health_check_uncaught(transport, status) ==
  IF transport = "ok" THEN Returned(PyBool(status \in {"green", "yellow"}))
  ELSE IF transport = "ConnectionError" THEN Raised("ConnectionError")
  ELSE Returned(PyFalse)

es_health_check(transport, status) ==
  IF transport = "ok" THEN Returned(PyBool(status \in {"green", "yellow"}))
  ELSE IF transport = "ConnectionError" THEN Returned(PyFalse)
  ELSE Returned(PyFalse)

\* RedisService.health_check.
redis_health_check(transport) ==
  IF transport = "ok" THEN Returned(PyTrue) ELSE Returned(PyFalse)

\* GeminiService.health_check.  client: "absent" when self.client is falsy;
\* response: what generate_content("Hello") returned.
gemini_health_check(client, transport, response) ==
  IF client = "absent" THEN Returned(PyFalse)
  ELSE IF transport = "ok"
    THEN Returned(PyBool(response # NotGenerated /\ length(strip(response)) > 0))
    ELSE Returned(PyFalse)

probe_elasticsearch ==
  /\ \E transport \in Transports, status \in ClusterStatuses :
       probe' = [ service |-> "elasticsearch", client |-> "present",
                  transport |-> transport,
                  answer |-> IF transport = "ok" THEN status ELSE None,
                  result |-> es_health_check(transport, status) ]
  /\ UNCHANGED <<turnVars, registry, lifespan, http_pc, http_req, http_resp,
                 http_calls, requests, route_resp, lookup, search, issued,
                 kv, kv_last, llm, unit, profileVars, wsVars>>

probe_redis ==
  /\ \E transport \in Transports :
       probe' = [ service |-> "redis", client |-> "present",
                  transport |-> transport,
                  answer |-> IF transport = "ok" THEN "PONG" ELSE None,
                  result |-> redis_health_check(transport) ]
  /\ UNCHANGED <<turnVars, registry, lifespan, http_pc, http_req, http_resp,
                 http_calls, requests, route_resp, lookup, search, issued,
                 kv, kv_last, llm, unit, profileVars, wsVars>>

probe_gemini ==
  /\ \E client \in {"absent", "present"}, transport \in Transports,
        response \in Generated \cup {NotGenerated} :
       /\ client = "absent" => transport = "ok" /\ response = NotGenerated
       /\ transport # "ok" => response = NotGenerated
       /\ probe' = [ service |-> "gemini", client |-> client,
                     transport |-> IF client = "absent" THEN None ELSE transport,
                     answer |-> response.core,
                     result |-> gemini_health_check(client, transport, response) ]
  /\ UNCHANGED <<turnVars, registry, lifespan, http_pc, http_req, http_resp,
                 http_calls, requests, route_resp, lookup, search, issued,
                 kv, kv_last, llm, unit, profileVars, wsVars>>

\* ------------------------------------------------------------ RedisService
\* CACHE_KEYS[ns].format(id); the empty namespace is a key used as given.
KvKey(ns, id) == [ns |-> ns, id |-> id]
RawKey == KvKey("", "k1")
SessionKey(session_id) == KvKey("session", session_id)
QueryKey(query_hash) == KvKey("query_cache", query_hash)
KvPatterns == {KvKey("session", "*"), KvKey("query_cache", "*"), KvKey("", "*")}
Matches(key, pattern) == pattern.ns = "" \/ key.ns = pattern.ns

session_ttl == 3600
query_cache_ttl == 300

\* Values a caller stores: an object, a list, two strings (one of them made
\* of digits), a number and a boolean.
SampleObject == PyValue("dict", "{\"a\": 1}")
SampleList == PyValue("list", "[1, 2]")
KvValues ==
  {SampleObject, SampleList, PyStr("hello"), PyStr("123"), PyInt("123"), PyTrue}

\* Expiry arguments; 0 stands for both None and 0, which `if expire:` and
\* `expire or ttl` treat alike.
Expires == {0, 60}
KvTransports == {"ok", "raise"}

\* json.dumps of an object or a list: its JSON text.
dumps(value) == PyStr(value.v)

\* json.loads of a stored text: the document the text denotes, whatever its
\* type; a text that is no JSON document raises JSONDecodeError.
JsonDocuments == {SampleObject, SampleList, PyInt("123"), PyTrue, PyFalse, PyNone}
IsJson(text) == \E d \in JsonDocuments : d.v = text
loads(text) == CHOOSE d \in JsonDocuments : d.v = text

\* What redis-py writes for a value: the characters of a string, the digits
\* of a number; any other type raises DataError.
Encodable(value) == value.t \in {"str", "int"}
Entry(text, ttl) == [text |-> text, ttl |-> ttl]
Put(store, key, entry) ==
  [k \in DOMAIN store \cup {key} |-> IF k = key THEN entry ELSE store[k]]
Drop(store, keys) == [k \in DOMAIN store \ keys |-> store[k]]
Digits(n) == IF n = 0 THEN "0" ELSE IF n = 1 THEN "1" ELSE IF n = 2 THEN "2" ELSE "3"
KvOutcome(store, returned) == [store |-> store, result |-> returned]

\* RedisService.set.
set(store, key, value, expire, transport) ==
  LET wire == IF value.t \in {"dict", "list"} THEN dumps(value) ELSE value
  IN IF transport # "ok" \/ ~Encodable(wire)
       THEN KvOutcome(store, Returned(PyFalse))
       ELSE IF expire # 0
         THEN KvOutcome(Put(store, key, Entry(wire.v, expire)), Returned(PyTrue))
         ELSE KvOutcome(Put(store, key, Entry(wire.v, 0)), Returned(PyTrue))

\* RedisService.get.
get_uncaught(store, key, transport) ==
  IF transport # "ok" THEN KvOutcome(store, Raised("ConnectionError"))
  ELSE IF key \notin DOMAIN store THEN KvOutcome(store, Returned(PyNone))
  ELSE IF IsJson(store[key].text)
    THEN KvOutcome(store, Returned(loads(store[key].text)))
    ELSE KvOutcome(store, Returned(PyStr(store[key].text)))

get(store, key, transport) ==
  IF transport # "ok" THEN KvOutcome(store, Returned(PyNone))
  ELSE IF key \notin DOMAIN store THEN KvOutcome(store, Returned(PyNone))
  ELSE IF IsJson(store[key].text)
    THEN KvOutcome(store, Returned(loads(store[key].text)))
    ELSE KvOutcome(store, Returned(PyStr(store[key].text)))

\* RedisService.delete.
delete(store, key, transport) ==
  IF transport # "ok" THEN KvOutcome(store, Returned(PyFalse))
  ELSE KvOutcome(Drop(store, {key}), Returned(PyBool(key \in DOMAIN store)))

\* RedisService.exists.
exists(store, key, transport) ==
  IF transport # "ok" THEN KvOutcome(store, Returned(PyFalse))
  ELSE KvOutcome(store, Returned(PyBool(key \in DOMAIN store)))

\* RedisService.clear_cache_pattern.
clear_cache_pattern(store, pattern, transport) ==
  LET keys == {k \in DOMAIN store : Matches(k, pattern)}
  IN IF transport # "ok" THEN KvOutcome(store, Returned(PyInt("0")))
     ELSE IF keys # {}
       THEN KvOutcome(Drop(store, keys), Returned(PyInt(Digits(Cardinality(keys)))))
       ELSE KvOutcome(store, Returned(PyInt("0")))

\* One call of RedisService: the keyspace it leaves and the record of the call.
KvCall(op, key, value, expire, transport, outcome) ==
  /\ kv' = outcome.store
  /\ kv_last' = [ op |-> op, key |-> key, value |-> value, expire |-> expire,
                  transport |-> transport, result |-> outcome.result ]
  /\ UNCHANGED <<turnVars, registry, lifespan, http_pc, http_req, http_resp,
                 http_calls, requests, route_resp, lookup, search, issued,
                 probe, llm, unit, profileVars, wsVars>>

set_call ==
  \E value \in KvValues, expire \in Expires, transport \in KvTransports :
    KvCall("set", RawKey, value, expire, transport,
           set(kv, RawKey, value, expire, transport))

get_call ==
  \E key \in {RawKey, SessionKey("s1")}, transport \in KvTransports :
    KvCall("get", key, PyNone, 0, transport, get(kv, key, transport))

delete_call ==
  \E transport \in KvTransports :
    KvCall("delete", RawKey, PyNone, 0, transport, delete(kv, RawKey, transport))

exists_call ==
  \E transport \in KvTransports :
    KvCall("exists", RawKey, PyNone, 0, transport, exists(kv, RawKey, transport))

clear_cache_pattern_call ==
  \E pattern \in KvPatterns, transport \in KvTransports :
    KvCall("clear_cache_pattern", pattern, PyNone, 0, transport,
           clear_cache_pattern(kv, pattern, transport))

\* RedisService.set_session.
set_session ==
  \E expire \in Expires, transport \in KvTransports :
    LET key == SessionKey("s1")
        ttl == IF expire # 0 THEN expire ELSE session_ttl
    IN KvCall("set_session", key, SampleObject, expire, transport,
              set(kv, key, SampleObject, ttl, transport))

\* RedisService.get_session.
get_session ==
  \E transport \in KvTransports :
    LET key == SessionKey("s1")
    IN KvCall("get_session", key, PyNone, 0, transport, get(kv, key, transport))

\* RedisService.delete_session.
delete_session ==
  \E transport \in KvTransports :
    LET key == SessionKey("s1")
    IN KvCall("delete_session", key, PyNone, 0, transport,
              delete(kv, key, transport))

\* RedisService.cache_query_result.
cache_query_result ==
  \E expire \in Expires, transport \in KvTransports :
    LET key == QueryKey("h1")
        ttl == IF expire # 0 THEN expire ELSE query_cache_ttl
    IN KvCall("cache_query_result", key, SampleObject, expire, transport,
              set(kv, key, SampleObject, ttl, transport))

\* RedisService.get_cached_query.
get_cached_query ==
  \E transport \in KvTransports :
    LET key == QueryKey("h1")
    IN KvCall("get_cached_query", key, PyNone, 0, transport,
              get(kv, key, transport))

\* The server drops a key whose time to live has run out.
key_expires ==
  /\ \E key \in DOMAIN kv :
       /\ kv[key].ttl > 0
       /\ kv' = Drop(kv, {key})
       /\ kv_last' = [ NoKvOp EXCEPT !.op = "expired", !.key = key ]
  /\ UNCHANGED <<turnVars, registry, lifespan, http_pc, http_req, http_resp,
                 http_calls, requests, route_resp, lookup, search, issued,
                 probe, llm, unit, profileVars, wsVars>>

\* ------------------------------------------- GeminiService.generate_content
\* What one call of client.models.generate_content does: it answers a text
\* (here one with surrounding whitespace, one of whitespace only and the
\* empty one), it answers no text at all, or it raises.
PaddedReply == Text("hi", 2, 2)
ApiOutcomes ==
  { [kind |-> "text", text |-> Hello],
    [kind |-> "text", text |-> PaddedReply],
    [kind |-> "text", text |-> BlankMessage],
    [kind |-> "text", text |-> EmptyMessage],
    [kind |-> "none", text |-> NotGenerated],
    [kind |-> "raise", text |-> NotGenerated] }
Prompts == {Hello, BlankMessage, EmptyMessage}

\* `response and response.text` and then `result = response.text.strip()`,
\* `if result`.
NonEmpty(outcome) ==
  outcome.kind = "text" /\ length(outcome.text) > 0 /\ length(strip(outcome.text)) > 0
Slept(attempt) == [after |-> attempt, seconds |-> 2 ^ attempt]

\* Entry of generate_content: the two early returns, and a loop that does
\* not run at all when retry_count is 0.
generate_content ==
  /\ llm.phase = "idle"
  /\ \E client \in {"absent", "present"}, prompt \in Prompts,
        retry_count \in 0..MaxRetries :
       LET called == [ NoGenerate EXCEPT !.client = client, !.prompt = prompt.core,
                                         !.retry_count = retry_count ]
       IN IF client = "absent" \/ length(prompt) = 0 \/ length(strip(prompt)) = 0
               \/ retry_count = 0
            THEN llm' = [ called EXCEPT !.phase = "done",
                                        !.result = Returned(NotGenerated) ]
            ELSE llm' = [ called EXCEPT !.phase = "running" ]
  /\ UNCHANGED <<turnVars, registry, lifespan, http_pc, http_req, http_resp,
                 http_calls, requests, route_resp, lookup, search, issued,
                 probe, kv, kv_last, unit, profileVars, wsVars>>

\* One pass of the retry loop, the wait that follows it included.
generate_content_attempt_waiting ==
  /\ llm.phase = "running"
  /\ \E outcome \in ApiOutcomes :
       LET attempt == llm.attempt
           tried == [ llm EXCEPT !.api_calls = @ + 1,
                                 !.outcomes = Append(@, outcome) ]
           last == attempt = llm.retry_count - 1
       IN IF outcome.kind = "raise"
            THEN IF last
              THEN llm' = [ tried EXCEPT !.phase = "done",
                                         !.result = Returned(NotGenerated) ]
              ELSE llm' = [ tried EXCEPT !.sleeps = Append(@, Slept(attempt)),
                                         !.attempt = attempt + 1 ]
            ELSE IF NonEmpty(outcome)
              THEN llm' = [ tried EXCEPT !.phase = "done",
                                         !.result = Returned(strip(outcome.text)) ]
              ELSE llm' = [ tried EXCEPT !.sleeps = Append(@, Slept(attempt)),
                                         !.attempt = attempt + 1 ]
  /\ UNCHANGED <<turnVars, registry, lifespan, http_pc, http_req, http_resp,
                 http_calls, requests, route_resp, lookup, search, issued,
                 probe, kv, kv_last, unit, profileVars, wsVars>>

generate_content_attempt ==
  /\ llm.phase = "running"
  /\ \E outcome \in ApiOutcomes :
       LET attempt == llm.attempt
           tried == [ llm EXCEPT !.api_calls = @ + 1,
                                 !.outcomes = Append(@, outcome) ]
           last == attempt = llm.retry_count - 1
       IN IF outcome.kind = "raise"
            THEN IF last
              THEN llm' = [ tried EXCEPT !.phase = "done",
                                         !.result = Returned(NotGenerated) ]
              ELSE llm' = [ tried EXCEPT !.sleeps = Append(@, Slept(attempt)),
                                         !.attempt = attempt + 1 ]
            ELSE IF NonEmpty(outcome)
              THEN llm' = [ tried EXCEPT !.phase = "done",
                                         !.result = Returned(strip(outcome.text)) ]
              ELSE IF last
                THEN llm' = [ tried EXCEPT !.phase = "done",
                                           !.result = Returned(NotGenerated) ]
                ELSE llm' = [ tried EXCEPT !.attempt = attempt + 1 ]
  /\ UNCHANGED <<turnVars, registry, lifespan, http_pc, http_req, http_resp,
                 http_calls, requests, route_resp, lookup, search, issued,
                 probe, kv, kv_last, unit, profileVars, wsVars>>

InitServices ==
  /\ turn_limit = MaxTurns
  /\ svc = RegistryServices
  /\ cluster = SampleCluster
  /\ caller = "none"
  /\ ws_agent = "depends"
  /\ registry = AllConstructed
  /\ lifespan = "serving"
  /\ TurnIdle /\ HttpIdle /\ WsIdle

NextServices ==
  \/ probe_elasticsearch
  \/ probe_redis
  \/ probe_gemini
  \/ generate_content
  \/ generate_content_attempt

SpecServices == InitServices /\ [][NextServices]_vars

\* The executor call and the sleep of a pass both come back.
SpecGenerate == SpecServices /\ WF_vars(generate_content_attempt)

NextCache ==
  \/ set_call
  \/ get_call
  \/ delete_call
  \/ exists_call
  \/ clear_cache_pattern_call
  \/ set_session
  \/ get_session
  \/ delete_session
  \/ cache_query_result
  \/ get_cached_query
  \/ key_expires

SpecCache == InitServices /\ [][NextCache]_vars

\* ------------------------- QueryIntelligenceService.update_user_profile
\* A UserProfile, less the moving average of the complexity, the expertise
\* levels (changed only with user feedback, which the agent never passes)
\* and the timestamp, none of which any other field depends on.
Profile(behavior_type, preferred_chart_types, common_fields, interaction_patterns) ==
  [ behavior_type |-> behavior_type,
    preferred_chart_types |-> preferred_chart_types,
    common_fields |-> common_fields,
    interaction_patterns |-> interaction_patterns ]
NewProfile == Profile("casual", <<>>, <<>>, [k \in {} |-> 0])

\* A profile four completed calls have built.
SeasonedProfile ==
  Profile("casual", <<"bar", "line", "pie", "scatter">>,
          <<"f1", "f2", "f3", "f4", "f5", "f6", "f7", "f8">>,
          [k \in {"time_series_analysis", "categorical_comparison"} |->
             IF k = "time_series_analysis" THEN 3 ELSE 1])

\* Arguments of update_user_profile: the fields of the intent analysis are
\* None (as _validate_intent_analysis and _get_fallback_intent_analysis put
\* them when the LLM names none) or a list.
NoFields == [present |-> FALSE, list |-> <<>>]
Fields(list) == [present |-> TRUE, list |-> list]
ProfileFields ==
  { NoFields, Fields(<<>>), Fields(<<"price", "region">>),
    Fields(<<"date", "qty", "sku">>) }
ProfileChartTypes == {None, "bar", "area", "BAR"}
ProfilePatterns == {"time_series_analysis", "categorical_comparison"}
BehaviorHints == {None, "analyst"}

\* seq[-n:]
LastOf(n, seq) ==
  IF Len(seq) <= n THEN seq ELSE SubSeq(seq, Len(seq) - n + 1, Len(seq))

\* for field in fields: if field not in common_fields: append
RECURSIVE AppendNew(_, _)
AppendNew(seq, fields) ==
  IF fields = <<>> THEN seq
  ELSE AppendNew(IF InSeq(Head(fields), seq) THEN seq ELSE Append(seq, Head(fields)),
                 Tail(fields))

RECURSIVE SumOver(_, _)
SumOver(f, keys) ==
  IF keys = {} THEN 0
  ELSE LET k == CHOOSE x \in keys : TRUE IN f[k] + SumOver(f, keys \ {k})
Occurrences(profiles, session_id) ==
  IF session_id \in DOMAIN profiles
    THEN SumOver(profiles[session_id].interaction_patterns,
                 DOMAIN profiles[session_id].interaction_patterns)
    ELSE 0
Occurred(profiles, session_id, pattern) ==
  IF session_id \in DOMAIN profiles
       /\ pattern \in DOMAIN profiles[session_id].interaction_patterns
    THEN profiles[session_id].interaction_patterns[pattern]
    ELSE 0

\* update_user_profile.  The profile of a known session is the stored object
\* itself, so what the call changes before it raises stays changed; iterating
\* over fields that are None raises TypeError.
update_user_profile_overwriting(profiles, session_id, pattern, hint, chart_type, fields) ==
  LET known == session_id \in DOMAIN profiles
      profile == IF known THEN profiles[session_id] ELSE NewProfile
      hinted == IF hint # None THEN [profile EXCEPT !.behavior_type = hint]
                ELSE profile
      charted ==
        IF chart_type # None /\ ~InSeq(chart_type, hinted.preferred_chart_types)
          THEN [hinted EXCEPT !.preferred_chart_types = LastOf(5, Append(@, chart_type))]
          ELSE hinted
      fielded == [charted EXCEPT
                    !.common_fields = LastOf(10, AppendNew(@, fields.list))]
      counted == [fielded EXCEPT !.interaction_patterns =
                    [k \in DOMAIN @ \cup {pattern} |-> IF k = pattern THEN 1 ELSE @[k]]]
  IN IF ~fields.present
       THEN [ store |-> IF known THEN [profiles EXCEPT ![session_id] = charted]
                        ELSE profiles,
              outcome |-> "TypeError" ]
       ELSE [ store |-> Put(profiles, session_id, counted), outcome |-> "returned" ]

update_user_profile(profiles, session_id, pattern, hint, chart_type, fields) ==
  LET known == session_id \in DOMAIN profiles
      profile == IF known THEN profiles[session_id] ELSE NewProfile
      hinted == IF hint # None THEN [profile EXCEPT !.behavior_type = hint]
                ELSE profile
      charted ==
        IF chart_type # None /\ ~InSeq(chart_type, hinted.preferred_chart_types)
          THEN [hinted EXCEPT !.preferred_chart_types = LastOf(5, Append(@, chart_type))]
          ELSE hinted
      fielded == [charted EXCEPT
                    !.common_fields = LastOf(10, AppendNew(@, fields.list))]
      counted == [fielded EXCEPT !.interaction_patterns =
                    [k \in DOMAIN @ \cup {pattern} |->
                       IF k = pattern
                         THEN (IF k \in DOMAIN @ THEN @[k] ELSE 0) + 1
                         ELSE @[k]]]
  IN IF ~fields.present
       THEN [ store |-> IF known THEN [profiles EXCEPT ![session_id] = charted]
                        ELSE profiles,
              outcome |-> "TypeError" ]
       ELSE [ store |-> Put(profiles, session_id, counted), outcome |-> "returned" ]

\* One call of update_user_profile; the method holds no await, so calls of
\* concurrent turns run one after the other.
update_user_profile_call ==
  /\ profile_last.calls < MaxUpdates
  /\ \E pattern \in ProfilePatterns, hint \in BehaviorHints,
        chart_type \in ProfileChartTypes, fields \in ProfileFields :
       LET updated == update_user_profile(user_profiles, "s1", pattern, hint,
                                          chart_type, fields)
       IN /\ user_profiles' = updated.store
          /\ profile_last' =
               [ session_id |-> "s1", pattern |-> pattern, hint |-> hint,
                 chart_type |-> chart_type, fields |-> fields,
                 outcome |-> updated.outcome,
                 calls |-> profile_last.calls + 1,
                 completed |-> IF updated.outcome = "returned"
                                 THEN profile_last.completed + 1
                                 ELSE profile_last.completed ]
  /\ UNCHANGED <<turnVars, registry, lifespan, http_pc, http_req, http_resp,
                 http_calls, requests, route_resp, lookup, search, issued,
                 probe, kv, kv_last, llm, unit, wsVars>>

InitProfiles ==
  /\ turn_limit = MaxTurns
  /\ svc = RegistryServices
  /\ cluster = SampleCluster
  /\ caller = "none"
  /\ ws_agent = "depends"
  /\ registry = AllConstructed
  /\ lifespan = "serving"
  /\ TurnIdle /\ WsIdle
  /\ http_pc = "idle"
  /\ http_req = [message |-> EmptyMessage, session_id |-> None]
  /\ http_resp = NoResponse
  /\ http_calls = <<>>
  /\ requests = 0
  /\ route_resp = NoRouteResponse
  /\ lookup = NoLookup
  /\ search = NoSearch
  /\ issued = {}
  /\ probe = NoProbe
  /\ kv = [k \in {} |-> None]
  /\ kv_last = NoKvOp
  /\ llm = NoGenerate
  /\ unit = NoUnit
  /\ \/ ProfilesIdle
     \/ /\ user_profiles = [k \in {"s1"} |-> SeasonedProfile]
        /\ profile_last = [NoProfileUpdate EXCEPT !.completed = 4]

NextProfiles == update_user_profile_call

SpecProfiles == InitProfiles /\ [][NextProfiles]_vars

\* ------------------------------------------------- helpers of the workflow
\* A helper is called on its arguments and returns.
Called(fn, args) == [fn |-> fn, phase |-> "called", args |-> args, ret |-> None]
UnitReturns(fn, ret) ==
  /\ unit.fn = fn
  /\ unit.phase = "called"
  /\ unit' = [unit EXCEPT !.phase = "returned", !.ret = ret]
  /\ UNCHANGED <<turnVars, registry, lifespan, http_pc, http_req, http_resp,
                 http_calls, requests, route_resp, lookup, search, issued,
                 probe, kv, kv_last, llm, profileVars, wsVars>>

\* Arguments of _determine_target_index: every intent, with no index named,
\* with one that may be listed, with a system index and with one that is
\* nowhere; index lists with and without the sample and the system indices.
NamedIndices == {None, "orders", ".kibana", "missing"}
TargetIntentAnalyses ==
  { [intent |-> i, index |-> n] : i \in ValidIntents, n \in NamedIndices }
AvailableIndexLists ==
  { <<>>, <<".kibana">>, <<".kibana", "orders">>, <<"orders", ".kibana">>,
    <<"orders">>, <<"orders", "sample-logs">>, <<"orders", "sample-sales">>,
    <<"sample-logs", "sample-sales">>, <<".kibana", "sample-logs">> }
TargetIndexArgs ==
  { [intent_analysis |-> a, available_indices |-> l] :
      a \in TargetIntentAnalyses, l \in AvailableIndexLists }

determine_target_index_call ==
  UnitReturns("_determine_target_index",
              determine_target_index(unit.args.intent_analysis,
                                     unit.args.available_indices))

\* The chart types of the recommendation engine (ChartType) and the chart
\* types an intent analysis may hint at.
ChartTypes ==
  {"bar", "line", "pie", "scatter", "area", "histogram", "heatmap", "box"}
valid_chart_types == {"line", "bar", "pie", "scatter", "area"}

\* A dictionary key that is not there, and dict.get(key, default).
Missing == "<missing>"
Get(value, default) == IF value = Missing THEN default ELSE value

\* Arguments of the chart helpers.  The chart-type hint of the intent
\* analysis: a key holding None or a chart type, as _validate_intent_analysis
\* and _get_fallback_intent_analysis build it, or no key at all.  The search
\* result: hits with or without documents and aggregations.  What
\* generate_enhanced_chart_recommendations gives: a list of recommendations,
\* best first, possibly empty, or an exception when the handle is unusable.
ChartHints == {None, Missing} \cup valid_chart_types
ChartResults ==
  { [total_hits |-> 5, data |-> d, aggregations |-> a] :
      d \in {<<>>, <<"doc">>, <<"doc", "doc">>}, a \in BOOLEAN }
Recommendations ==
  { [kind |-> "raise", recs |-> <<>>] }
    \cup { [kind |-> "ok", recs |-> r] :
             r \in { <<>>, <<"bar">>, <<"line", "area">>, <<"pie", "scatter">>,
                     <<"histogram", "box", "bar">>, <<"heatmap">> } }
ChartArgs ==
  { [intent_analysis |-> [chart_type |-> h], query_results |-> r, recommended |-> m] :
      h \in ChartHints, r \in ChartResults, m \in Recommendations }

\* _generate_chart_config.
generate_chart_config(intent_analysis, query_results) ==
  [ chart_type |-> Get(intent_analysis.chart_type, "bar"),
    has_data |-> Len(query_results.data) > 0,
    data_count |-> Len(query_results.data),
    use_aggregations |-> query_results.aggregations,
    alternative_charts |-> <<>>,
    enhanced |-> FALSE ]

\* _generate_enhanced_chart_config.
generate_enhanced_chart_config(intent_analysis, query_results, recommended) ==
  IF query_results.data = <<>>
    THEN generate_chart_config(intent_analysis, query_results)
  ELSE IF recommended.kind = "raise"
    THEN generate_chart_config(intent_analysis, query_results)
  ELSE IF recommended.recs # <<>>
    THEN [ chart_type |-> recommended.recs[1],
           has_data |-> Len(query_results.data) > 0,
           data_count |-> Len(query_results.data),
           use_aggregations |-> query_results.aggregations,
           alternative_charts |->
             SubSeq(recommended.recs, 2, IF Len(recommended.recs) < 3
                                           THEN Len(recommended.recs) ELSE 3),
           enhanced |-> TRUE ]
  ELSE generate_chart_config(intent_analysis, query_results)

generate_enhanced_chart_config_call ==
  UnitReturns("_generate_enhanced_chart_config",
              generate_enhanced_chart_config(unit.args.intent_analysis,
                                             unit.args.query_results,
                                             unit.args.recommended))

\* ------------------------------------------ GeminiService.analyze_query_intent
\* str.lower() on the words the LLM may write.
Lower(chars) ==
  CASE chars = "SEARCH" -> "search"
    [] chars = "Chart" -> "chart"
    [] chars = "BAR" -> "bar"
    [] chars = "Today" -> "today"
    [] OTHER -> chars

valid_time_ranges ==
  {"last_30_days", "last_week", "today", "last_hour", "last_24_hours"}

\* A key the JSON object does not hold, dict.get and Python's truth value.
MissingValue == PyValue("missing", "")
DictGet(value, default) == IF value = MissingValue THEN default ELSE value
Falsy(value) == value \in {PyNone, PyStr(""), PyInt("0"), PyFalse}

\* What the LLM may put in the three fields: a valid word, the same in
\* another case, an unknown word, a number, null, or nothing.
IntentFields ==
  { PyStr("search"), PyStr("SEARCH"), PyStr("Chart"), PyStr("lookup"),
    PyInt("5"), PyNone, MissingValue }
ChartTypeFields ==
  { PyStr("bar"), PyStr("BAR"), PyStr("donut"), PyStr(""), PyInt("5"),
    PyInt("0"), PyNone, MissingValue }
TimeRangeFields ==
  { PyStr("today"), PyStr("Today"), PyStr("yesterday"), PyInt("5"), PyNone,
    MissingValue }
IntentData ==
  { [intent |-> i, chart_type |-> c, time_range |-> t] :
      i \in IntentFields, c \in ChartTypeFields, t \in TimeRangeFields }

\* What generate_content and _extract_json_from_response give: an exception
\* (a handle that raises), no text, a text holding no JSON, the empty
\* object, a JSON list, or an object with fields.
IntentResponses == {"raise", "none", "unparseable", "empty_object", "list", "object"}
IntentArgs ==
  { [response |-> "object", data |-> d] : d \in IntentData }
    \cup { [response |-> r, data |-> [intent |-> MissingValue,
                                       chart_type |-> MissingValue,
                                       time_range |-> MissingValue]] :
             r \in IntentResponses \ {"object"} }

\* _get_fallback_intent_analysis.
get_fallback_intent_analysis(description) ==
  [ intent |-> PyStr("general"), chart_type |-> PyNone, time_range |-> PyNone,
    query_description |-> description ]

\* _validate_intent_analysis.  .lower() on a value that is no string raises
\* AttributeError.
validate_intent_analysis(data) ==
  LET raw_intent == DictGet(data.intent, PyStr("general"))
      chart_type == DictGet(data.chart_type, PyNone)
      time_range == DictGet(data.time_range, PyNone)
      intent == Lower(raw_intent.v)
  IN IF raw_intent.t # "str" THEN Raised("AttributeError")
     ELSE IF ~Falsy(chart_type) /\ chart_type.t # "str" THEN Raised("AttributeError")
     ELSE Returned(
       [ intent |-> IF intent \notin ValidIntents THEN PyStr("general")
                    ELSE PyStr(intent),
         chart_type |-> IF ~Falsy(chart_type)
                           /\ Lower(chart_type.v) \notin valid_chart_types
                          THEN PyNone ELSE chart_type,
         time_range |-> IF ~Falsy(time_range)
                           /\ ~(time_range.t = "str" /\ time_range.v \in valid_time_ranges)
                          THEN PyNone ELSE time_range,
         query_description |-> "User query" ])

\* analyze_query_intent, from the answer of generate_content on.
analyze_query_intent(response, data) ==
  IF response = "raise"
    THEN get_fallback_intent_analysis("Error analyzing intent")
  ELSE IF response \in {"none", "unparseable", "empty_object"}
    THEN get_fallback_intent_analysis("Unable to parse intent")
  ELSE IF response = "list"
    THEN get_fallback_intent_analysis("Error analyzing intent")
  ELSE IF validate_intent_analysis(data).exc # None
    THEN get_fallback_intent_analysis("Error analyzing intent")
  ELSE validate_intent_analysis(data).ret

analyze_query_intent_call ==
  UnitReturns("analyze_query_intent",
              analyze_query_intent(unit.args.response, unit.args.data))

\* ------------------------------- QueryIntelligenceService.analyze_query_pattern
\* Scores are kept exact: a score s of the code is the integer 2100 * s, so
\* that a keyword share k/5, k/6 or k/7 of 0.4 is a whole number.
Scaled(tenths) == 210 * tenths

Rule(pattern, keywords, field_types, chart_types, aggregation_types, boost) ==
  [ pattern |-> pattern, keywords |-> keywords, field_types |-> field_types,
    chart_types |-> chart_types, aggregation_types |-> aggregation_types,
    confidence_boost |-> boost ]

\* _build_pattern_rules, in declaration order; a key a rule does not have
\* reads as the empty list.
pattern_rules ==
  << Rule("time_series_analysis",
          {"over time", "timeline", "trend", "progression", "daily", "monthly", "yearly"},
          {"temporal", "date", "timestamp"}, {"line", "area"}, {}, Scaled(3)),
     Rule("categorical_comparison",
          {"compare", "versus", "vs", "between", "across", "by category"},
          {"categorical", "text"}, {"bar", "pie"}, {}, Scaled(2)),
     Rule("aggregation_summary",
          {"total", "sum", "average", "count", "max", "min", "summary"},
          {}, {"bar", "pie"}, {"sum", "avg", "count", "max", "min"}, Scaled(4)),
     Rule("correlation_analysis",
          {"correlation", "relationship", "association", "related", "impact"},
          {"numeric"}, {"scatter", "heatmap"}, {}, Scaled(5)),
     Rule("distribution_analysis",
          {"distribution", "spread", "range", "histogram", "frequency"},
          {"numeric"}, {"histogram", "box"}, {}, Scaled(4)),
     Rule("trend_analysis",
          {"trend", "pattern", "growth", "decline", "increase", "decrease"},
          {"temporal", "numeric"}, {"line", "area"}, {}, Scaled(3)),
     Rule("anomaly_detection",
          {"anomaly", "outlier", "unusual", "abnormal", "spike", "drop"},
          {"numeric"}, {"line", "scatter"}, {}, Scaled(6)),
     Rule("drill_down",
          {"detail", "breakdown", "drill down", "specific", "individual"},
          {}, {}, {}, Scaled(2)),
     Rule("roll_up",
          {"overview", "summary", "high level", "aggregate", "total"},
          {}, {}, {}, Scaled(2)),
     Rule("filter_refinement",
          {"filter", "where", "only", "exclude", "include", "specific"},
          {}, {}, {}, Scaled(1)) >>

\* Arguments of analyze_query_pattern.  A message is the set of the rules'
\* keywords that occur in it; the fields of the intent analysis are the set
\* of field-type words that occur in their printed form.
PatternMessages ==
  { {}, {"trend"}, {"total"}, {"specific"}, {"compare", "across"},
    {"anomaly"}, {"overview"}, {"distribution", "range"} }
PatternIntentAnalyses ==
  { [present |-> TRUE, fields |-> f, chart_type |-> c, aggregation_type |-> a] :
      f \in {{}, {"timestamp"}, {"numeric"}},
      c \in {None, "line", "bar", "scatter"},
      a \in {None, "sum", "terms"} }
    \cup { [present |-> FALSE, fields |-> {}, chart_type |-> None,
            aggregation_type |-> None] }
PatternArgs ==
  { [user_message |-> m, intent_analysis |-> a] :
      m \in PatternMessages, a \in PatternIntentAnalyses }

\* The score _identify_primary_pattern gives one rule.
pattern_score(rules, message, intent_analysis) ==
  LET keyword_matches == Cardinality(rules.keywords \cap message)
      matched ==
        (IF rules.keywords # {}
           THEN keyword_matches * (Scaled(4) \div Cardinality(rules.keywords))
           ELSE 0)
        + (IF rules.field_types # {} /\ intent_analysis.fields # {}
              /\ rules.field_types \cap intent_analysis.fields # {}
             THEN Scaled(3) ELSE 0)
        + (IF rules.chart_types # {} /\ intent_analysis.chart_type # None
              /\ intent_analysis.chart_type \in rules.chart_types
             THEN Scaled(2) ELSE 0)
        + (IF rules.aggregation_types # {} /\ intent_analysis.aggregation_type # None
              /\ intent_analysis.aggregation_type \in rules.aggregation_types
             THEN Scaled(1) ELSE 0)
      score == IF matched > 0 THEN matched + rules.confidence_boost ELSE matched
  IN IF score > Scaled(10) THEN Scaled(10) ELSE score

\* _identify_primary_pattern: max() over the scores gives the first rule, in
\* declaration order, whose score is the highest; pattern_scores has an
\* entry for every rule, so the default return after it is never reached.
identify_primary_pattern(message, intent_analysis) ==
  LET scores == [i \in 1..Len(pattern_rules) |->
                   pattern_score(pattern_rules[i], message, intent_analysis)]
      best == CHOOSE i \in 1..Len(pattern_rules) :
                /\ \A j \in 1..Len(pattern_rules) : scores[j] <= scores[i]
                /\ \A j \in 1..(i - 1) : scores[j] < scores[i]
  IN [pattern |-> pattern_rules[best].pattern, confidence |-> scores[best]]

\* analyze_query_pattern: an intent analysis that is no dictionary makes
\* _identify_primary_pattern raise, and the except branch answers the
\* default insight.
analyze_query_pattern(message, intent_analysis) ==
  IF ~intent_analysis.present
    THEN [pattern |-> "categorical_comparison", confidence |-> Scaled(5)]
    ELSE identify_primary_pattern(message, intent_analysis)

analyze_query_pattern_call ==
  UnitReturns("analyze_query_pattern",
              analyze_query_pattern(unit.args.user_message,
                                    unit.args.intent_analysis))

\* --------------------------- ChartRecommendationService.recommend_charts
\* A confidence c of the code is the integer 100 * c.
Rec(chart_type, confidence) == [chart_type |-> chart_type, confidence |-> confidence]
Boost(rec, by) ==
  [rec EXCEPT !.confidence = IF @ + by > 100 THEN 100 ELSE @ + by]

\* What analyze_data finds in a dataset: the number of records, whether
\* there are temporal and categorical fields, how many numeric fields, whether
\* two of them correlate strongly and whether the first categorical field has
\* at most 8 values.
DataProfiles ==
  { [total_records |-> n, temporal |-> t, categorical |-> c, numeric |-> m,
     correlated |-> r, few_categories |-> f] :
      n \in {0, 2}, t \in BOOLEAN, c \in BOOLEAN, m \in 0..2, r \in BOOLEAN,
      f \in BOOLEAN }
\* The intent: None or empty, a word holding none of the keywords, or a text
\* holding a keyword of the trend, comparison, distribution or relationship
\* group (the first group that matches).
ChartIntents == {None, "chart", "trend", "compare", "distribution", "correlation"}
\* The preferences: None, or preferred chart types and a complexity.
NoPreferences == [present |-> FALSE, preferred_chart_types |-> {}, complexity |-> "medium"]
ChartPreferences ==
  { NoPreferences }
    \cup { [present |-> TRUE, preferred_chart_types |-> t, complexity |-> c] :
             t \in {{}, {"bar", "line"}, {"scatter", "histogram", "area"}},
             c \in {"simple", "medium", "advanced"} }
RecommendArgs ==
  { [profile |-> d, intent |-> i, user_preferences |-> u] :
      d \in {x \in DataProfiles :
               /\ x.total_records = 0 =>
                    ~x.temporal /\ ~x.categorical /\ x.numeric = 0 /\ ~x.few_categories
               /\ x.correlated => x.numeric >= 2
               /\ x.few_categories => x.categorical},
      i \in ChartIntents, u \in ChartPreferences }

\* _identify_characteristics, in the order it appends them.
identify_characteristics(profile) ==
  (IF profile.temporal /\ profile.numeric > 0 THEN <<"temporal">> ELSE <<>>)
    \o (IF profile.categorical /\ profile.numeric > 0 THEN <<"categorical">> ELSE <<>>)
    \o (IF profile.numeric >= 2 THEN <<"numerical">> ELSE <<>>)
    \o (IF profile.numeric >= 2 /\ profile.correlated THEN <<"correlation">> ELSE <<>>)
    \o (IF profile.numeric >= 1 THEN <<"distribution">> ELSE <<>>)

\* _apply_characteristic_rules.
apply_characteristic_rules(characteristic, profile) ==
  IF characteristic = "temporal"
    THEN IF profile.temporal /\ profile.numeric > 0
           THEN <<Rec("line", 90), Rec("area", 80)>> ELSE <<>>
  ELSE IF characteristic = "categorical"
    THEN IF profile.categorical /\ profile.numeric > 0
           THEN (IF profile.few_categories THEN <<Rec("pie", 85)>> ELSE <<>>)
                  \o <<Rec("bar", 80)>>
           ELSE <<>>
  ELSE IF characteristic = "correlation"
    THEN IF profile.numeric >= 2 THEN <<Rec("scatter", 90)>> ELSE <<>>
  ELSE IF characteristic = "distribution"
    THEN IF profile.numeric > 0 THEN <<Rec("histogram", 75)>> ELSE <<>>
  ELSE <<>>

\* _apply_intent_rules.
apply_intent_rules(intent, profile) ==
  IF intent = "trend"
    THEN IF profile.temporal /\ profile.numeric > 0 THEN <<Rec("line", 95)>> ELSE <<>>
  ELSE IF intent = "compare"
    THEN IF profile.categorical /\ profile.numeric > 0 THEN <<Rec("bar", 90)>> ELSE <<>>
  ELSE IF intent = "distribution"
    THEN IF profile.numeric > 0 THEN <<Rec("histogram", 90)>> ELSE <<>>
  ELSE IF intent = "correlation"
    THEN IF profile.numeric >= 2 THEN <<Rec("scatter", 95)>> ELSE <<>>
  ELSE <<>>

\* _apply_user_preferences.
apply_user_preferences(recommendations, preferences) ==
  LET preferred(rec) ==
        IF preferences.preferred_chart_types # {}
             /\ rec.chart_type \in preferences.preferred_chart_types
          THEN Boost(rec, 10) ELSE rec
      levelled(rec) ==
        IF preferences.complexity = "simple" /\ rec.chart_type \in {"bar", "pie", "line"}
          THEN Boost(rec, 5)
        ELSE IF preferences.complexity = "advanced"
                  /\ rec.chart_type \in {"scatter", "heatmap", "box"}
          THEN Boost(rec, 5)
        ELSE rec
  IN [i \in 1..Len(recommendations) |-> levelled(preferred(recommendations[i]))]

RECURSIVE Flatten(_)
Flatten(lists) == IF lists = <<>> THEN <<>> ELSE Head(lists) \o Flatten(Tail(lists))

\* The candidates recommend_charts collects before it removes duplicates.
Candidates(profile, intent, preferences) ==
  LET characteristics == identify_characteristics(profile)
      by_data == Flatten([i \in 1..Len(characteristics) |->
                            apply_characteristic_rules(characteristics[i], profile)])
      by_intent == IF intent # None THEN apply_intent_rules(intent, profile) ELSE <<>>
  IN IF preferences.present
       THEN apply_user_preferences(by_data \o by_intent, preferences)
       ELSE by_data \o by_intent

\* unique_recommendations: one entry per chart type, in the order the types
\* first occur, holding the candidate of the highest confidence.
RECURSIVE Unique(_)
Unique(recs) ==
  IF recs = <<>> THEN <<>>
  ELSE LET type == Head(recs).chart_type
           same == SelectSeq(recs, LAMBDA r : r.chart_type = type)
           best == CHOOSE c \in {same[i].confidence : i \in 1..Len(same)} :
                     \A i \in 1..Len(same) : same[i].confidence <= c
       IN <<Rec(type, best)>>
            \o Unique(SelectSeq(recs, LAMBDA r : r.chart_type # type))

\* sorted(..., key=confidence, reverse=True): stable.
RECURSIVE SortedByConfidence(_)
SortedByConfidence(recs) ==
  IF recs = <<>> THEN <<>>
  ELSE LET first == CHOOSE i \in 1..Len(recs) :
                      /\ \A j \in 1..Len(recs) : recs[j].confidence <= recs[i].confidence
                      /\ \A j \in 1..(i - 1) : recs[j].confidence < recs[i].confidence
       IN <<recs[first]>>
            \o SortedByConfidence(SubSeq(recs, 1, first - 1)
                                    \o SubSeq(recs, first + 1, Len(recs)))

\* recommend_charts.
recommend_charts_keeping_duplicates(profile, intent, preferences) ==
  IF profile.total_records = 0 THEN <<>>
  ELSE LET final == SortedByConfidence(Candidates(profile, intent, preferences))
       IN SubSeq(final, 1, IF Len(final) < 5 THEN Len(final) ELSE 5)

recommend_charts(profile, intent, preferences) ==
  IF profile.total_records = 0 THEN <<>>
  ELSE LET final == SortedByConfidence(Unique(Candidates(profile, intent, preferences)))
       IN SubSeq(final, 1, IF Len(final) < 5 THEN Len(final) ELSE 5)

recommend_charts_call ==
  UnitReturns("recommend_charts",
              recommend_charts(unit.args.profile, unit.args.intent,
                               unit.args.user_preferences))

\* ------------------------------------------------------------- Settings
\* A keyword argument of Settings(...): not given (and not in the
\* environment), or a value; a value meant for an int field is an integer or
\* a text that is no number.
NotGiven == [given |-> FALSE, text |-> "", is_int |-> FALSE, int |-> 0]
GivenStr(text) == [given |-> TRUE, text |-> text, is_int |-> FALSE, int |-> 0]
GivenInt(n) == [given |-> TRUE, text |-> "", is_int |-> TRUE, int |-> n]
SettingsArgs ==
  { [google_api_key |-> k, elasticsearch_port |-> e, redis_port |-> r, port |-> p] :
      k \in {NotGiven, GivenStr(""), GivenStr("test_key")},
      e \in {NotGiven, GivenInt(-1), GivenInt(0), GivenInt(9201), GivenStr("abc")},
      r \in {NotGiven, GivenInt(-1)},
      p \in {NotGiven, GivenInt(-1), GivenInt(8080)} }

\* The validation of a field declared "name: int = Field(default=...)": any
\* integer passes, there is no constraint on its range.
IntField(arg, default) ==
  IF ~arg.given THEN [ok |-> TRUE, value |-> default]
  ELSE IF arg.is_int THEN [ok |-> TRUE, value |-> arg.int]
  ELSE [ok |-> FALSE, value |-> default]
\* The validation of "google_api_key: str = Field(...)": required, any text
\* passes, the empty one included.
RequiredStrField(arg) ==
  IF arg.given /\ ~arg.is_int THEN [ok |-> TRUE, value |-> arg.text]
  ELSE [ok |-> FALSE, value |-> ""]

Settings(args) ==
  LET google_api_key == RequiredStrField(args.google_api_key)
      elasticsearch_port == IntField(args.elasticsearch_port, 9200)
      redis_port == IntField(args.redis_port, 6379)
      port == IntField(args.port, 8000)
      valid == google_api_key.ok /\ elasticsearch_port.ok /\ redis_port.ok /\ port.ok
  IN [ outcome |-> IF valid THEN "constructed" ELSE "ValidationError",
       google_api_key |-> google_api_key.value,
       elasticsearch_port |-> elasticsearch_port.value,
       redis_port |-> redis_port.value,
       port |-> port.value ]

Settings_call == UnitReturns("Settings", Settings(unit.args))

InitFunctions ==
  /\ turn_limit = MaxTurns
  /\ svc = RegistryServices
  /\ cluster = SampleCluster
  /\ caller = "none"
  /\ ws_agent = "depends"
  /\ registry = AllConstructed
  /\ lifespan = "serving"
  /\ TurnIdle /\ WsIdle
  /\ http_pc = "idle"
  /\ http_req = [message |-> EmptyMessage, session_id |-> None]
  /\ http_resp = NoResponse
  /\ http_calls = <<>>
  /\ requests = 0
  /\ route_resp = NoRouteResponse
  /\ lookup = NoLookup
  /\ search = NoSearch
  /\ issued = {}
  /\ probe = NoProbe
  /\ kv = [k \in {} |-> None]
  /\ kv_last = NoKvOp
  /\ llm = NoGenerate
  /\ ProfilesIdle
  /\ \/ \E args \in TargetIndexArgs : unit = Called("_determine_target_index", args)
     \/ \E args \in ChartArgs : unit = Called("_generate_enhanced_chart_config", args)
     \/ \E args \in IntentArgs : unit = Called("analyze_query_intent", args)
     \/ \E args \in PatternArgs : unit = Called("analyze_query_pattern", args)
     \/ \E args \in RecommendArgs : unit = Called("recommend_charts", args)
     \/ \E args \in SettingsArgs : unit = Called("Settings", args)

NextFunctions ==
  \/ determine_target_index_call
  \/ generate_enhanced_chart_config_call
  \/ analyze_query_intent_call
  \/ analyze_query_pattern_call
  \/ recommend_charts_call
  \/ Settings_call

SpecFunctions == InitFunctions /\ [][NextFunctions]_vars

C2_NoneServicesRaise ==
  (pc = "done" /\ svc = [es |-> "absent", gemini |-> "absent",
                         redis |-> "absent", vdb |-> "absent"])
    => result.status = "raised"

\* C3: after analyze_intelligence a turn enters generate_query, and then
\* execute_query, exactly when no turn error is set and the intent is one of
\* search, aggregate, filter, chart, count; otherwise it goes straight to
\* generate_response and that turn invokes neither the LLM query synthesis,
\* nor the query cache, nor the Elasticsearch search.
C3_Routing ==
  /\ [][ /\ pc = "route" =>
              pc' = IF ~Truthy(state.error)
                         /\ state.intent_analysis.intent \in
                              {"search", "aggregate", "filter", "chart", "count"}
                      THEN "generate_query" ELSE "generate_response"
         /\ pc = "generate_query" => pc' = "execute_query"
         /\ pc = "execute_query" => pc' = "generate_response"
         /\ pc' = "generate_query" => pc = "route"
         /\ pc' = "execute_query" => pc = "generate_query" ]_vars
  /\ [] ( ( /\ pc \in {"generate_response", "finish", "done"}
            /\ \/ state.error \in {ErrConnect, ErrIntent}
               \/ state.intent_analysis.intent \notin
                    {"search", "aggregate", "filter", "chart", "count"} )
          => /\ ~Made("llm.generate_elasticsearch_query")
             /\ ~Made("redis.get_cached_query")
             /\ ~Made("redis.cache_query_result")
             /\ ~Made("es.simple_search")
             /\ state.elasticsearch_query = None
             /\ state.query_results.none )

C3_Witness ==
  /\ pc = "generate_response"
  /\ state.user_message = Hello
  /\ state.intent_analysis.intent = "general"
  /\ ~Truthy(state.error)
  /\ svc = RegistryServices
  /\ ~Made("redis.get_cached_query")
  /\ ~Made("es.simple_search")

\* C4: for every turn that runs to its end, the result process_message
\* returns carries the text produced by generate_response and the intent
\* classified by analyze_intent, also when the query stages were skipped and
\* query_results is still None.
C4_ResultCarriesResponse ==
  pc = "done" =>
    /\ result.status = "returned"
    /\ result.response = state.response_message
    /\ result.intent = state.intent_analysis.intent

\* C5: when the same message with the same intent analysis is submitted in a
\* later turn while the cache is healthy and the entry has not expired, the
\* turn finds the cached query, does not call the LLM for query synthesis,
\* and executes the query the earlier turn produced.
C5_SecondTurnUsesCache ==
  [][ ( /\ pc = "generate_query"
        /\ generate_query_hash(state.user_message, state.intent_analysis)
             \in DOMAIN cache
        /\ \A i \in 1..Len(calls') : calls'[i] # "redis.failed" )
      => /\ \A i \in 1..Len(calls') :
              calls'[i] # "llm.generate_elasticsearch_query"
         /\ state'.elasticsearch_query =
              json_loads(cache[generate_query_hash(state.user_message,
                                                   state.intent_analysis)])
    ]_vars

\* C6: a well-formed chat message arriving at the gateway is processed by
\* the registry's orchestrator: once the orchestrator is constructed, the
\* handling of the message ends with typing:false followed by a message
\* from "agent" that carries the orchestrator's response, never the
\* gateway's own apology.
C6_ProcessedByOrchestrator ==
  (registry.agent /\ ws_last.outcome \in {"success", "failure"}) =>
    /\ turns > 0
    /\ result.status = "returned"
    /\ emitted = << TypingEnvelope(TRUE), UserEcho(strip(ws_last.frame.message)),
                    TypingEnvelope(FALSE), AgentMessage(result) >>
    /\ emitted[4].content # GatewayApology

\* C7: generate_response invokes store_conversation_context exactly once in
\* every turn that carries a session id while the Vector Memory is present:
\* turns that succeeded, turns that ended in an error, and turns whose query
\* stages were skipped without an error.
C7_ContextStoredEveryTurn ==
  ( /\ pc \in {"finish", "done"}
    /\ svc.gemini = "wrapper"
    /\ svc.vdb = "wrapper"
    /\ Truthy(state.session_id) )
  => Count("vdb.store_conversation_context") = 1

\* C8: a chat message that is blank or longer than 1000 characters is
\* answered with HTTP 400 before any backing service is invoked, whatever
\* the health of the backing services.
C8_RejectedBeforeAnyService ==
  ( /\ http_pc = "responded"
    /\ registry = AllConstructed
    /\ \/ strip(http_req.message).len = 0
       \/ length(http_req.message) > MaxMessageLength )
  => /\ http_resp.status = 400
     /\ http_calls = <<>>

\* C9: for each accepted chat message the gateway sends typing:true, then
\* the echo of the user's message, and only then invokes process_message;
\* when it has returned, typing:false is sent before the agent's message.
\* No message from "agent" is sent before typing:true and the echo.
C9_EnvelopeOrder ==
  /\ (ws_pc = "awaiting_agent" \/ caller = "ws") =>
       /\ ws_last.outcome = "pending"
       /\ emitted = << TypingEnvelope(TRUE),
                       UserEcho(strip(ws_last.frame.message)) >>
       /\ state.user_message = strip(ws_last.frame.message)
  /\ ws_last.outcome = "success" =>
       emitted = << TypingEnvelope(TRUE), UserEcho(strip(ws_last.frame.message)),
                    TypingEnvelope(FALSE), AgentMessage(result) >>
  /\ \A j \in 1..Len(emitted) :
       (emitted[j].type = "message" /\ emitted[j].sender = "agent") =>
         /\ j = 4
         /\ emitted[1] = TypingEnvelope(TRUE)
         /\ emitted[2] = UserEcho(strip(ws_last.frame.message))
         /\ emitted[3] = TypingEnvelope(FALSE)

C9_Witness ==
  /\ ws_agent = "agent"
  /\ ws_last.outcome = "success"
  /\ ws_last.frame.message = Hello
  /\ Len(emitted) = 4
  /\ emitted[4].sender = "agent"
  /\ emitted[4].content = LLMText

\* C11: from the completion of connect until its disconnect, every registered
\* connection has a session associated with it (get_session_id returns a
\* session id), for any interleaving of connects and disconnects of several
\* clients, including clients that supply the same session id.
C11_RegisteredHasSession ==
  \A c \in active_connections : get_session_id(c) # None

\* C12 (as first stated): a connection's registry entry exists for as long as
\* its receive loop is running; no failure while handling or answering a
\* message, a failed send of an outbound envelope included, removes it.
C12_EntryWhileLoopRuns ==
  ws_pc \in {"receive", "awaiting_agent"} => ConnectionId \in active_connections

\* C12 (amended): the entry is created on connect and removed when the
\* connection's loop ends on a disconnect or, before that, when the send of
\* an outbound envelope to it fails; as long as no send has failed, nothing
\* that happens while a message is handled or answered removes the entry of
\* a connection whose loop is running.
C12_EntryLifetime ==
  /\ [][ /\ (ConnectionId \notin active_connections
               /\ ConnectionId \in active_connections')
              => (ws_pc = "new" /\ ws_pc' = "receive")
         /\ (ConnectionId \in active_connections
               /\ ConnectionId \notin active_connections')
              => \/ (ws_pc = "receive" /\ ws_pc' = "closed")
                 \/ (~socket_ok /\ Len(delivered') < Len(emitted')) ]_vars
  /\ [] ( (ws_pc \in {"receive", "awaiting_agent"} /\ socket_ok)
            => ConnectionId \in active_connections )

C12_Witness ==
  /\ ws_pc = "receive"
  /\ ~socket_ok
  /\ ConnectionId \notin active_connections
  /\ Len(delivered) < Len(emitted)
  /\ ws_last.outcome \in {"success", "timeout"}

\* C13: within one gateway connection inbound frames are handled one at a
\* time in arrival order: the handling of a frame, its whole chat turn and
\* all the envelopes it sends included, completes before the next frame is
\* read, so at most one turn is in flight for the connection.
C13_OneFrameAtATime ==
  /\ [][ /\ frames' # frames =>
              /\ frames' = frames + 1
              /\ ws_pc = "receive"
              /\ caller # "ws"
              /\ ws_last.outcome # "pending"
         /\ turns' # turns =>
              /\ turns' = turns + 1
              /\ frames' = frames + 1
              /\ pc \in {"idle", "done", "cancelled"}
         /\ (emitted' # emitted /\ frames' = frames) =>
              /\ ws_pc = "awaiting_agent"
              /\ ws_pc' = "receive"
              /\ ws_last'.frame = ws_last.frame ]_vars
  /\ [] ( /\ caller = "ws" <=> ws_pc = "awaiting_agent"
          /\ caller = "ws" <=> ws_last.outcome = "pending" )

C13_Witness ==
  /\ frames = 2
  /\ turns = 1
  /\ ws_pc = "receive"
  /\ pc = "done"
  /\ ws_last.frame.type = "ping"
  /\ emitted = <<PongEnvelope>>

C15_EveryAccessorHealthGated ==
  lookup.name # None =>
    /\ lookup.ok <=> (lookup.constructed /\ lookup.calls # <<>>
                        /\ lookup.health = "healthy")
    /\ ~lookup.ok => lookup.status = 503

\* C15 (amended): the accessors of the four services return a handle only
\* if the singleton has been constructed and the service reports itself
\* healthy at that lookup, and fail with 503 otherwise; the orchestrator's
\* accessor makes no health check: it returns the handle whenever the
\* orchestrator has been constructed and fails with 503 only when it has not.
C15_ServiceAccessorsHealthGated ==
  lookup.name # None =>
    /\ lookup.name \in {"es", "gemini", "redis", "vdb"} =>
         /\ lookup.ok <=> (lookup.constructed /\ lookup.health = "healthy")
         /\ lookup.constructed <=> lookup.calls # <<>>
    /\ lookup.name = "agent" =>
         /\ lookup.ok <=> lookup.constructed
         /\ lookup.calls = <<>>
    /\ ~lookup.ok => lookup.status = 503

C15_Witness ==
  /\ lookup.name = "agent"
  /\ lookup.constructed
  /\ lookup.health = "unhealthy"
  /\ lookup.ok

\* C16: after cleanup() has been invoked, whether or not closing one of the
\* connections failed, all five singleton references are absent.
C16_CleanupClearsAll ==
  lifespan = "shutdown" => registry = AllCleared

\* C17: GET /health answers 200 with per-service booleans and an overall
\* status that is "healthy" iff search cluster, cache and LLM are all
\* healthy and "degraded" otherwise; an unhealthy vector memory changes
\* neither the overall status nor the status code.
C17_HealthAlways200 ==
  (route_resp.route = "/health" /\ route_resp.constructed) =>
    /\ route_resp.status = 200
    /\ route_resp.overall =
         IF route_resp.services["elasticsearch"] /\ route_resp.services["redis"]
              /\ route_resp.services["gemini"]
           THEN "healthy" ELSE "degraded"

\* C18: GET /elasticsearch/info answers 503 when the route finds the cluster
\* unreachable (its liveness ping is false).
C18_UnreachableIs503 ==
  (route_resp.route = "/elasticsearch/info" /\ route_resp.ping = "false")
    => route_resp.status = 503

\* C19: for a valid index and query simple_search never raises; its result
\* carries an error string if and only if the underlying search call
\* failed, and then total_hits = 0, data = [] and aggregations = {}; a
\* successful search with zero hits returns total_hits = 0 and data = []
\* with no error key.
C19_SearchResultShape ==
  ( /\ search.phase \in {"returned", "raised"}
    /\ search.index \notin {"", None}
    /\ search.query \notin {"{}", None} )
  => /\ search.phase = "returned"
     /\ search.raised = None
     /\ search.error # None <=> search.outcome \in {"not_found", "failed"}
     /\ search.error # None =>
          /\ search.total_hits = 0
          /\ search.data = <<>>
          /\ search.aggregations = <<>>
     /\ (search.outcome = "ok" /\ search.total_hits = 0) =>
          /\ search.data = <<>>
          /\ search.error = None

C19_Witness ==
  /\ search.phase = "returned"
  /\ search.index = "missing"
  /\ search.outcome = "not_found"
  /\ search.error = "Index not found"
  /\ search.total_hits = 0

\* C20: simple_search called with an empty index name or an empty query
\* object fails with the taxonomy's Validation error (the kind mapped to
\* HTTP 400), without contacting the search cluster.
C20_InvalidInputIsValidationError ==
  ( /\ search.phase \in {"returned", "raised"}
    /\ \/ search.index = ""
       \/ search.query = "{}" )
  => /\ search.phase = "raised"
     /\ search.raised = "ValidationError"
     /\ ~search.contacted

\* C21: a health check of the cache, the search cluster or the LLM service
\* whose transport raises, or (LLM service) whose client is absent, returns
\* False and lets no exception through.
C21_HealthChecksReturnFalse ==
  (probe.service # None /\ (probe.transport \notin {"ok", None} \/ probe.client = "absent"))
    => probe.result = Returned(PyFalse)

C21_Witness ==
  /\ probe.service = "elasticsearch"
  /\ probe.transport = "ConnectionError"
  /\ probe.result = Returned(PyFalse)

\* C22: RedisService lets no failure of its client through: when the client
\* raises, set gives False, get gives None, delete and exists give False and
\* clear_cache_pattern gives 0, and so do the session and query-cache
\* conveniences built on them; the keyspace is left as it was.
C22_CacheNeverPropagates ==
  /\ kv_last.result.exc \in {None, "pending"}
  /\ kv_last.transport = "raise" =>
       /\ kv_last.op \in {"set", "set_session", "cache_query_result", "delete",
                          "delete_session", "exists"}
            => kv_last.result = Returned(PyFalse)
       /\ kv_last.op \in {"get", "get_session", "get_cached_query"}
            => kv_last.result = Returned(PyNone)
       /\ kv_last.op = "clear_cache_pattern"
            => kv_last.result = Returned(PyInt("0"))

C22_Witness ==
  /\ kv_last.op = "get_session"
  /\ kv_last.transport = "raise"
  /\ SessionKey("s1") \in DOMAIN kv
  /\ kv_last.result = Returned(PyNone)

\* C23: a value stored with set(key, value, ttl) and read back at once with
\* get(key) comes back equal to the value stored, and get of a key that is
\* not stored gives None.
C23_RoundTrip ==
  [][ /\ (kv_last.op = "set" /\ kv_last.transport = "ok"
            /\ kv_last'.op = "get" /\ kv_last'.transport = "ok"
            /\ kv_last'.key = kv_last.key)
        => kv_last'.result = Returned(kv_last.value)
      /\ (kv_last'.op = "get" /\ kv_last'.transport = "ok"
            /\ kv_last'.key \notin DOMAIN kv)
        => kv_last'.result = Returned(PyNone) ]_vars

\* C24: generate_content ends after at most retry_count calls of the
\* generative API; it returns the first response that is non-empty once
\* trimmed, trimmed, and None when every attempt raised or answered nothing.
C24_GenerateTerminates ==
  /\ [](llm.api_calls <= llm.retry_count)
  /\ [](llm.phase = "done" =>
         LET answers == {i \in 1..Len(llm.outcomes) : NonEmpty(llm.outcomes[i])}
         IN IF answers = {}
              THEN llm.result = Returned(NotGenerated)
              ELSE /\ answers = {Len(llm.outcomes)}
                   /\ llm.result.ret.core = llm.outcomes[Len(llm.outcomes)].text.core
                   /\ llm.result.ret.pad = 0
                   /\ llm.result.exc = None)
  /\ (llm.phase = "running" ~> llm.phase = "done")

C24_Witness ==
  /\ llm.phase = "done"
  /\ llm.retry_count = 3
  /\ llm.api_calls = 3
  /\ llm.outcomes[1].kind = "raise"
  /\ llm.outcomes[2].text = BlankMessage
  /\ llm.outcomes[3].text = PaddedReply
  /\ llm.result = Returned(Text("hi", 2, 0))

\* C25: every failed attempt k of generate_content, whether it raised or
\* answered nothing, is followed by a wait of 2^k seconds before the next
\* attempt or before giving up.
C25_BackoffAfterEveryFailure ==
  \A i \in 1..Len(llm.outcomes) :
    ~NonEmpty(llm.outcomes[i]) =>
      \E j \in 1..Len(llm.sleeps) : llm.sleeps[j] = Slept(i - 1)

\* C26: when the cluster cannot be reached, so that the listing of a cluster
\* that holds user indices yields none, get_indices leaves the turn with an
\* empty index list and the error "Failed to connect to Elasticsearch".
C26_UnreachableSetsConnectError ==
  [][ ( /\ pc = "get_indices"
        /\ pc' = "analyze_intent"
        /\ \E i \in 1..Len(cluster) : cluster[i] \notin SystemIndices
        /\ state'.available_indices = <<>> )
      => state'.error = ErrConnect ]_vars

\* C27: _determine_target_index follows the priority rule: the named index
\* when it is available; else sample-sales when available and the intent is
\* chart, aggregate or search; else sample-logs when available and the intent
\* is search or filter; else the first available index not starting with
\* '.'; else the first available index; else None.  So the index selected is
\* always one of the available ones, [".kibana"] selects ".kibana" and []
\* selects None.
C27_TargetIndexRule ==
  (unit.fn = "_determine_target_index" /\ unit.phase = "returned") =>
    LET a == unit.args.available_indices
        named == unit.args.intent_analysis.index
        intent == unit.args.intent_analysis.intent
        has(x) == \E i \in 1..Len(a) : a[i] = x
        byName == named # None /\ has(named)
        bySales == ~byName /\ has("sample-sales")
                     /\ intent \in {"chart", "aggregate", "search"}
        byLogs == ~byName /\ ~bySales /\ has("sample-logs")
                     /\ intent \in {"search", "filter"}
        byRule == byName \/ bySales \/ byLogs
        user == {i \in 1..Len(a) : a[i] \notin SystemIndices}
    IN /\ a = <<>> <=> unit.ret = None
       /\ a # <<>> => has(unit.ret)
       /\ byName => unit.ret = named
       /\ bySales => unit.ret = "sample-sales"
       /\ byLogs => unit.ret = "sample-logs"
       /\ (~byRule /\ user # {}) =>
            \E i \in user : unit.ret = a[i] /\ \A j \in user : i <= j
       /\ (~byRule /\ user = {} /\ a # <<>>) => unit.ret = a[1]
       /\ a = <<".kibana">> => unit.ret = ".kibana"

C27_Witness ==
  /\ unit.fn = "_determine_target_index"
  /\ unit.phase = "returned"
  /\ unit.args.available_indices = <<".kibana", "orders">>
  /\ unit.args.intent_analysis = [intent |-> "count", index |-> "missing"]
  /\ unit.ret = "orders"

\* C28: the chart configuration _execute_query stores for the turn, built by
\* the enhanced path or by the basic fallback, with or without a chart-type
\* hint in the intent analysis, has a chart_type among the engine's chart
\* types.
C28_ChartTypeValid ==
  (unit.fn = "_generate_enhanced_chart_config" /\ unit.phase = "returned")
    => unit.ret.chart_type \in ChartTypes

\* C29: whatever the LLM wrote in the fields (another case, an unknown
\* word, a value that is no string, null), the analysis analyze_query_intent
\* returns has an intent among the six intents, a chart type among line, bar,
\* pie, scatter, area or None, and a time range among the five tags or None.
C29_IntentAnalysisNormalized ==
  (unit.fn = "analyze_query_intent" /\ unit.phase = "returned") =>
    /\ unit.ret.intent \in {PyStr(i) : i \in ValidIntents}
    /\ unit.ret.chart_type \in {PyStr(c) : c \in valid_chart_types} \cup {PyNone}
    /\ unit.ret.time_range \in {PyStr(t) : t \in valid_time_ranges} \cup {PyNone}

\* C30: when no rule scores above 0 for the message and the intent
\* analysis, analyze_query_pattern gives the pattern categorical_comparison
\* with confidence 0.5; otherwise it gives the rule with the highest score,
\* the first of them in declaration order, with a confidence in (0, 1].
C30_PatternFallback ==
  (unit.fn = "analyze_query_pattern" /\ unit.phase = "returned"
     /\ unit.args.intent_analysis.present) =>
    LET score(i) == pattern_score(pattern_rules[i], unit.args.user_message,
                                  unit.args.intent_analysis)
        rules == 1..Len(pattern_rules)
    IN IF \A i \in rules : score(i) = 0
         THEN /\ unit.ret.pattern = "categorical_comparison"
              /\ unit.ret.confidence = Scaled(5)
         ELSE \E i \in rules :
                /\ unit.ret.pattern = pattern_rules[i].pattern
                /\ unit.ret.confidence = score(i)
                /\ \A j \in rules : score(j) <= score(i)
                /\ \A j \in rules : j < i => score(j) < score(i)
                /\ 0 < score(i) /\ score(i) <= Scaled(10)

\* C31: after every call of update_user_profile, one whose intent analysis
\* holds no field list included, the session has a profile, the occurrence
\* counter of the insight's pattern has grown by exactly one, there are at
\* most 5 preferred chart types, all distinct, and at most 10 recent fields;
\* a call applies all of its updates or leaves the stored profile as it was.
C31_ProfileUpdated ==
  [][ profile_last' # profile_last =>
        LET sid == profile_last'.session_id
        IN /\ sid \in DOMAIN user_profiles'
           /\ Occurred(user_profiles', sid, profile_last'.pattern)
                = Occurred(user_profiles, sid, profile_last'.pattern) + 1
           /\ Len(user_profiles'[sid].preferred_chart_types) <= 5
           /\ \A i, j \in 1..Len(user_profiles'[sid].preferred_chart_types) :
                user_profiles'[sid].preferred_chart_types[i]
                  = user_profiles'[sid].preferred_chart_types[j] => i = j
           /\ Len(user_profiles'[sid].common_fields) <= 10
           /\ profile_last'.outcome # "returned" => user_profiles' = user_profiles ]_vars

\* C37: calls of update_user_profile by concurrent turns on one session lose
\* no update: after N calls have completed, the session's occurrence counters
\* sum to N.
C37_NoLostUpdates ==
  Occurrences(user_profiles, "s1") = profile_last.completed

C37_Witness ==
  /\ profile_last.completed = 6
  /\ Occurrences(user_profiles, "s1") = 6
  /\ Occurred(user_profiles, "s1", "categorical_comparison") = 3
  /\ Len(user_profiles["s1"].common_fields) = 10

\* C32: recommend_charts gives at most 5 recommendations, no two of the same
\* chart type, each the candidate of the highest confidence of its type, all
\* confidences within [0, 1], in order of non-increasing confidence; a dataset
\* without records gives none.
C32_RecommendationShape ==
  (unit.fn = "recommend_charts" /\ unit.phase = "returned") =>
    LET recs == unit.ret
        candidates == Candidates(unit.args.profile, unit.args.intent,
                                 unit.args.user_preferences)
    IN /\ Len(recs) <= 5
       /\ \A i, j \in 1..Len(recs) : recs[i].chart_type = recs[j].chart_type => i = j
       /\ \A i \in 1..Len(recs) :
            /\ 0 <= recs[i].confidence /\ recs[i].confidence <= 100
            /\ \A k \in 1..Len(candidates) :
                 candidates[k].chart_type = recs[i].chart_type
                   => candidates[k].confidence <= recs[i].confidence
            /\ \E k \in 1..Len(candidates) : candidates[k] = recs[i]
       /\ \A i \in 1..(Len(recs) - 1) : recs[i].confidence >= recs[i + 1].confidence
       /\ unit.args.profile.total_records = 0 => recs = <<>>

C32_Witness ==
  /\ unit.fn = "recommend_charts"
  /\ unit.phase = "returned"
  /\ unit.args.intent = "trend"
  /\ Len(unit.ret) = 5
  /\ unit.ret[1] = Rec("line", 100)
  /\ \A i \in 1..5 : unit.ret[i].chart_type # "histogram"

\* C33: Settings(...) ends in a validation failure whenever the LLM API key
\* is empty or a port is negative, so no Settings value holds an empty key or
\* a negative port.
C33_SettingsValidated ==
  (unit.fn = "Settings" /\ unit.phase = "returned" /\ unit.ret.outcome = "constructed") =>
    /\ unit.ret.google_api_key # ""
    /\ unit.ret.elasticsearch_port >= 0
    /\ unit.ret.redis_port >= 0
    /\ unit.ret.port >= 0

\* C34: every turn is one forward pass of the workflow graph and reaches its
\* end: the position of the turn only moves along the edges of _build_graph
\* (get_indices, analyze_intent, analyze_intelligence, then generate_query,
\* execute_query, generate_response or generate_response at once), the graph
\* leads no node back to itself, generate_response is the only node before the
\* end, and error_handler is not reachable from the entry point.
C34_SingleForwardPass ==
  /\ [][ pc' # pc =>
           \/ NodeOf(pc) = NodeOf(pc')
           \/ /\ NodeOf(pc) \in WorkflowNodes
              /\ <<NodeOf(pc), NodeOf(pc')>> \in WorkflowEdges
           \/ pc \in {"idle", "done"} /\ pc' = EntryPoint /\ turns' = turns + 1
           \/ pc = "finish" /\ pc' = "done" ]_vars
  /\ [](pc = "finish" => state.response_message # EmptyText)
  /\ [](/\ pc # "error_handler"
        /\ "error_handler" \notin ReachableFrom({EntryPoint})
        /\ \A n \in WorkflowNodes : n \notin ReachableFrom(Successors({n}))
        /\ \A e \in WorkflowEdges :
             (e[2] = END /\ e[1] \in ReachableFrom({EntryPoint}))
               => e[1] = "generate_response")
  /\ (pc = "get_indices" ~> pc = "done")

C34_Witness ==
  /\ pc = "done"
  /\ turns = 1
  /\ Made("es.simple_search")
  /\ Made("llm.generate_response_message")
  /\ Before("es.list_indices", "llm.analyze_query_intent")
  /\ Before("llm.generate_elasticsearch_query", "es.simple_search")
  /\ Before("es.simple_search", "llm.generate_response_message")

\* C36: the analyze_intelligence stage leaves the turn error as it found it,
\* whether its analysis succeeded or failed, and a turn of a data intent
\* without error whose analysis failed still goes on to query generation.
C36_IntelligenceKeepsError ==
  [][ /\ pc = "analyze_intelligence" =>
           /\ pc' = "route"
           /\ state'.error = state.error
           /\ state'.intent_analysis = state.intent_analysis
      /\ (/\ pc = "route"
          /\ state.query_insight = None
          /\ ~Truthy(state.error)
          /\ state.intent_analysis.intent \in QueryIntents)
           => pc' = "generate_query" ]_vars

C36_Witness ==
  /\ pc = "generate_query"
  /\ state.query_insight = None
  /\ state.personalized_suggestions = <<>>
  /\ state.session_id = "s1"
  /\ state.error = None

\* C35: a raise of store_query_example, of store_conversation_context or of
\* update_user_profile at the end of a turn leaves the turn error and the
\* response text as they would be without it and the other two calls are
\* still made when their conditions hold; store_query_example is only called
\* on a turn without error whose result has at least one hit.
C35_PersistenceIndependent ==
  [][ (pc = "generate_response" /\ pc' = "finish") =>
        LET made(name) == \E i \in 1..Len(calls') : calls'[i] = name
            failed == \/ made("vdb.store_query_example.raised")
                      \/ made("vdb.store_conversation_context.raised")
                      \/ made("qi.update_user_profile.raised")
        IN /\ failed =>
                /\ state'.error = state.error
                /\ state'.response_message =
                     IF Truthy(state.error) THEN ErrorApology(state.error) ELSE LLMText
                /\ (~Truthy(state.error) /\ svc.vdb # "absent"
                      /\ state.query_results.total_hits > 0)
                     => made("vdb.store_query_example")
                /\ (svc.vdb # "absent" /\ Truthy(state.session_id))
                     => made("vdb.store_conversation_context")
                /\ (Truthy(state.query_insight) /\ Truthy(state.session_id))
                     => made("qi.update_user_profile")
           /\ made("vdb.store_query_example") =>
                /\ ~Truthy(state.error)
                /\ state.query_results.total_hits > 0 ]_vars

C35_Witness ==
  /\ pc = "finish"
  /\ Made("vdb.store_query_example.raised")
  /\ Made("vdb.store_conversation_context.raised")
  /\ Made("qi.update_user_profile")
  /\ state.response_message = LLMText
  /\ state.error = None

\* C38: a turn that ends with the turn error set, at whichever stage it was
\* set, returns no data rows and no chart configuration.
C38_ErrorTurnsCarryPlaceholders ==
  (pc = "done" /\ Truthy(state.error)) =>
    /\ result.data = <<>>
    /\ result.chart_config = NoChart

\* C39: the turn error is absent when a turn starts, no stage clears an error
\* that is set (a stage may replace it by another error), and a turn that
\* ends with an error set answers with an apology, never with the summary the
\* LLM wrote.
C39_ErrorMonotonic ==
  /\ [](pc = "get_indices" => state.error = None)
  /\ [][ (Truthy(state.error) /\ turns' = turns) => Truthy(state'.error) ]_vars
  /\ []((pc = "finish" /\ Truthy(state.error))
          => state.response_message = ErrorApology(state.error))
  /\ []((pc = "done" /\ Truthy(state.error))
          => result.response \in {ErrorApology(state.error), GenericApology})

C39_Witness ==
  /\ pc = "done"
  /\ state.error = ErrExecute
  /\ Made("llm.generate_elasticsearch_query")
  /\ Made("es.simple_search")
  /\ ~Made("llm.generate_response_message")
  /\ result.response = ErrorApology(ErrExecute)

\* C40: whatever connects, disconnects and failed sends have happened, with
\* shared or distinct session ids, every session id maps to a connection id
\* that is registered and no two session ids map to the same connection id.
C40_NoDanglingSession ==
  /\ \A s \in DOMAIN sessions : sessions[s] \in active_connections
  /\ \A s, t \in DOMAIN sessions : sessions[s] = sessions[t] => s = t

C40_Witness ==
  /\ Cardinality(issued) = 3
  /\ Cardinality(active_connections) = 2
  /\ DOMAIN sessions = {"s1"}

\* C10: every typing:true the handler sends is followed by a typing:false
\* before the handler returns, on every path: success; timeout (typing:false,
\* then an error envelope); any other failure (typing:false, then an apology
\* message from "agent"); an exception that escapes the handler's body
\* (typing:false, then a generic error envelope).
C10_TypingCleared ==
  (ws_pc \in {"receive", "closed"}) =>
    /\ \A i \in 1..Len(emitted) :
         (emitted[i].type = "typing" /\ emitted[i].typing) =>
           \E j \in (i + 1)..Len(emitted) :
             emitted[j].type = "typing" /\ ~emitted[j].typing
    /\ ws_last.outcome = "success" =>
         /\ Len(emitted) = 4
         /\ emitted[3] = TypingEnvelope(FALSE)
         /\ emitted[4].type = "message" /\ emitted[4].sender = "agent"
    /\ ws_last.outcome = "timeout" =>
         /\ Len(emitted) = 4
         /\ emitted[3] = TypingEnvelope(FALSE)
         /\ emitted[4] = ErrorEnvelope("Request timed out. Please try a simpler query.")
    /\ ws_last.outcome = "failure" =>
         /\ Len(emitted) = 4
         /\ emitted[3] = TypingEnvelope(FALSE)
         /\ emitted[4] = ApologyMessage
    /\ ws_last.outcome = "escaped" =>
         emitted = << TypingEnvelope(FALSE),
                      ErrorEnvelope("An unexpected error occurred") >>

C10_Witness ==
  /\ ws_pc = "receive"
  /\ ws_last.outcome = "timeout"
  /\ emitted[1] = TypingEnvelope(TRUE)
  /\ emitted[3] = TypingEnvelope(FALSE)
  /\ emitted[4].type = "error"
====
